---- MODULE Spec2Model ----
(***************************************************************************)
(* Model of the Knative request adapter of multi-cloud:                    *)
(*   src/src/multicloud/functions/knative/adapters.py  (adapt_asgi_request,*)
(*   _convert_body) and the Event record it builds                         *)
(*   src/src/multicloud/functions/common/multicloud_event.py.              *)
(*                                                                         *)
(* Representation.  A Python bytes object is a sequence of byte values     *)
(* 0..255; a Python str is a sequence of Unicode code points.  Both are    *)
(* TLA+ sequences of integers, so a value that may be either (the Event's  *)
(* body) carries a kind tag.  Str("...") turns an ASCII literal into its   *)
(* code points; the bytes literal b"..." of the same ASCII text has the    *)
(* same integers.                                                          *)
(*                                                                         *)
(* adapt_asgi_request is a coroutine: it only yields control at            *)
(* `await receive()`, so one action is one receive together with all the   *)
(* code that runs up to the next await or up to the return (Spec).         *)
(*                                                                         *)
(* The accessors of MultiCloudEvent are synchronous methods: one action is *)
(* one call on an Event constructed directly (SpecEvent).  dict, list and  *)
(* int values carry a kind tag like bytes and str do.                      *)
(*                                                                         *)
(* SpecEnding is Spec on a channel that ends the body, with fairness;      *)
(* SpecDocument calls get_xml and get_query_param; SpecPair runs two       *)
(* invocations of the adapter on one event loop; SpecConfig calls get and  *)
(* set of the ConfigManager of                                             *)
(*   src/src/multicloud/cli/config/config_manager.py.                      *)
(***************************************************************************)
EXTENDS Integers, Sequences, FiniteSets, TLC

VARIABLES
  scope,     \* the scope argument of the invocation
  pc,        \* "start": before the first receive; "loop": inside the while loop;
             \* "returned": an Event was returned; "raised": an exception left the call
  message,   \* the local variable message
  body,      \* the local variable body, the accumulator
  received,  \* the messages receive() has delivered, in order
  fault,     \* the exception receive() raised, if it raised
  result,    \* what the call ended with
  event,     \* a MultiCloudEvent a caller constructed and calls accessors of
  made,      \* that Event as it was constructed
  call,      \* the accessor call made last, with its arguments
  ret,       \* what that call returned or raised
  prev,      \* the call before it and what it returned
  config_data,  \* ConfigManager._config_data, the configuration in memory
  config_file,  \* the content of .multicloud/config.yaml
  invocations   \* the frames of the invocations of adapt_asgi_request that
                \* run concurrently on one event loop

adapterVars == <<scope, pc, message, body, received, fault, result>>

accessorVars == <<event, made, call, ret, prev>>

storeVars == <<config_data, config_file>>

vars == <<scope, pc, message, body, received, fault, result, event, made, call, ret, prev,
          config_data, config_file, invocations>>

-----------------------------------------------------------------------------
(* Bounds of the model *)

\* receive() is called at most MaxChunks times in one invocation
MaxChunks == 3

-----------------------------------------------------------------------------
(* Python str / bytes primitives *)

\* the printable ASCII characters of codes 32..95, in code order
AsciiLow ==
  " !\"#$%&'()*+,-./0123456789:;<=>?@ABCDEFGHIJKLMNOPQRSTUVWXYZ[\\]^_"

\* the printable ASCII characters of codes 97..126, in code order
AsciiHigh == "abcdefghijklmnopqrstuvwxyz{|}~"

\* ord(c) for a one-character ASCII string
Ord(c) ==
  IF \E i \in 1..Len(AsciiLow) : SubSeq(AsciiLow, i, i) = c
    THEN 31 + (CHOOSE i \in 1..Len(AsciiLow) : SubSeq(AsciiLow, i, i) = c)
    ELSE 96 + (CHOOSE i \in 1..Len(AsciiHigh) : SubSeq(AsciiHigh, i, i) = c)

\* the code points of an ASCII literal
Str(s) == [i \in 1..Len(s) |-> Ord(SubSeq(s, i, i))]

\* str.lower() on one code point (ASCII and Latin-1 letters)
LowerChar(c) ==
  IF (c >= 65 /\ c <= 90) \/ (c >= 192 /\ c <= 222 /\ c # 215) THEN c + 32 ELSE c

\* str.lower()
Lower(s) == [i \in 1..Len(s) |-> LowerChar(s[i])]

\* s.startswith(p)
StartsWith(s, p) == Len(s) >= Len(p) /\ SubSeq(s, 1, Len(p)) = p

\* p in s  (substring test)
Contains(s, p) == \E i \in 1..(Len(s) - Len(p) + 1) : SubSeq(s, i, i + Len(p) - 1) = p

\* the decimal digits of a natural number, as text
RECURSIVE Dec(_)
Dec(n) == IF n < 10 THEN <<48 + n>> ELSE Dec(n \div 10) \o <<48 + (n % 10)>>

\* one hexadecimal digit, lower case, as a code point
HexDigit(d) == IF d < 10 THEN 48 + d ELSE 87 + d

\* a byte as two hexadecimal digits
Hex2(b) == <<HexDigit(b \div 16), HexDigit(b % 16)>>

\* str(e) of the UnicodeDecodeError raised for byte b at 0-based position pos
DecodeErrorHead == Str("'utf-8' codec can't decode byte 0x")
DecodeErrorMid == Str(" in position ")
UnexpectedEnd == Str(": unexpected end of data")
InvalidContinuation == Str(": invalid continuation byte")
InvalidStart == Str(": invalid start byte")

DecodeErrorText(b, pos, reason) ==
  DecodeErrorHead \o Hex2(b) \o DecodeErrorMid \o Dec(pos) \o reason

\* bytes.decode("utf-8") from 1-based index i on; acc is the text decoded so
\* far.  ok = TRUE with the text, or ok = FALSE with str(UnicodeDecodeError).
\* One- and two-byte forms are decoded; the lead bytes of three- and four-byte
\* forms (224..244) are outside the byte alphabet of the model.
RECURSIVE Utf8From(_, _, _)
Utf8From(b, i, acc) ==
  IF i > Len(b) THEN [ok |-> TRUE, text |-> acc, detail |-> <<>>]
  ELSE IF b[i] < 128 THEN Utf8From(b, i + 1, Append(acc, b[i]))
  ELSE IF b[i] >= 194 /\ b[i] <= 223 THEN
    IF i = Len(b)
      THEN [ok |-> FALSE, text |-> <<>>,
            detail |-> DecodeErrorText(b[i], i - 1, UnexpectedEnd)]
    ELSE IF b[i + 1] < 128 \/ b[i + 1] > 191
      THEN [ok |-> FALSE, text |-> <<>>,
            detail |-> DecodeErrorText(b[i], i - 1, InvalidContinuation)]
    ELSE Utf8From(b, i + 2, Append(acc, (b[i] % 32) * 64 + (b[i + 1] % 64)))
  ELSE [ok |-> FALSE, text |-> <<>>,
        detail |-> DecodeErrorText(b[i], i - 1, InvalidStart)]

\* bytes.decode("utf-8")
Utf8Decode(b) == Utf8From(b, 1, <<>>)

Quote == Str("'")

\* repr() of an ASCII key, which is what str(KeyError(key)) gives
Repr(k) == Quote \o Str(k) \o Quote

-----------------------------------------------------------------------------
(* The string literals of adapters.py *)

ContentTypeKey == Str("content-type")
DefaultMethod == Str("GET")
DefaultPath == Str("/")
SourceTag == Str("knative")
XError == Str("x-error")
ConnectionErrorPrefix == Str("Connection error: ")
EncodingErrorPrefix == Str("Encoding error: ")
MissingKeyPrefix == Str("Missing key: ")

-----------------------------------------------------------------------------
(* Python dict with text keys: the pairs <<key, value>> in insertion order *)

\* key in d
DictHas(d, k) == \E i \in 1..Len(d) : d[i][1] = k

\* d.get(k, default)
DictGet(d, k, default) ==
  IF DictHas(d, k) THEN d[CHOOSE i \in 1..Len(d) : d[i][1] = k][2] ELSE default

\* d[k] = v : an existing key keeps its place and takes the new value
DictSet(d, k, v) ==
  IF DictHas(d, k)
    THEN [i \in 1..Len(d) |-> IF d[i][1] = k THEN <<k, v>> ELSE d[i]]
    ELSE Append(d, <<k, v>>)

-----------------------------------------------------------------------------
(* MultiCloudEvent *)

\* the values of MultiCloudEvent.body that the adapter produces
NoBody == [kind |-> "none", val |-> <<>>]
BytesBody(b) == [kind |-> "bytes", val |-> b]
TextBody(t) == [kind |-> "str", val |-> t]

\* the dataclass constructor
MultiCloudEvent(method, path, headers, query_string, body_, source) ==
  [method |-> method, path |-> path, headers |-> headers,
   query_string |-> query_string, body |-> body_, source |-> source]

\* Python values other than bytes and str, tagged the same way: None is NoBody
PyNone == NoBody
PyBool(b) == [kind |-> "bool", val |-> b]
PyInt(n) == [kind |-> "int", val |-> n]
\* a list: its items in order
PyList(items) == [kind |-> "list", val |-> items]
\* a dict: its <<key, value>> pairs in insertion order
PyDict(items) == [kind |-> "dict", val |-> items]

\* variant of GetHeader: the names are compared as they are
GetHeaderCaseSensitive(e, name, default) ==
  IF \E i \in 1..Len(e.headers) : e.headers[i][1] = name
    THEN TextBody(e.headers[CHOOSE i \in 1..Len(e.headers) : e.headers[i][1] = name][2])
    ELSE default

\* variant of GetHeader: the last matching header wins
GetHeaderLast(e, name, default) ==
  IF \E i \in 1..Len(e.headers) : Lower(e.headers[i][1]) = Lower(name)
    THEN TextBody(e.headers[CHOOSE i \in 1..Len(e.headers) :
                    /\ Lower(e.headers[i][1]) = Lower(name)
                    /\ \A j \in (i + 1)..Len(e.headers) :
                          Lower(e.headers[j][1]) # Lower(name)][2])
    ELSE default

\* get_header(name, default): the value of the first header, in iteration
\* order, whose lower-cased name is name.lower(); default if there is none
GetHeader(e, name, default) ==
  IF \E i \in 1..Len(e.headers) : Lower(e.headers[i][1]) = Lower(name)
    THEN TextBody(e.headers[CHOOSE i \in 1..Len(e.headers) :
                    /\ Lower(e.headers[i][1]) = Lower(name)
                    /\ \A j \in 1..(i - 1) : Lower(e.headers[j][1]) # Lower(name)][2])
    ELSE default

-----------------------------------------------------------------------------
(* The accessors of MultiCloudEvent *)

ApplicationJson == Str("application/json")
TextJson == Str("text/json")
ApplicationXml == Str("application/xml")
TextXml == Str("text/xml")
FormUrlEncoded == Str("application/x-www-form-urlencoded")
MultipartFormData == Str("multipart/form-data")
EmptyText == <<>>

\* an exception leaving an accessor
PyRaise(exc) == [kind |-> "raise", val |-> exc]

\* self.get_header("content-type", "").lower()
ContentTypeLower(e) == Lower(GetHeader(e, ContentTypeKey, TextBody(EmptyText)).val)

\* variant of IsJson: the content-type is not looked at
IsJsonAlways(e) == TRUE

IsJson(e) ==
  Contains(ContentTypeLower(e), ApplicationJson) \/ Contains(ContentTypeLower(e), TextJson)

IsXml(e) ==
  Contains(ContentTypeLower(e), ApplicationXml) \/ Contains(ContentTypeLower(e), TextXml)

IsFormData(e) == Contains(ContentTypeLower(e), FormUrlEncoded)

IsMultipart(e) == Contains(ContentTypeLower(e), MultipartFormData)

IsBinary(e) == e.body.kind = "bytes"

(* json.loads on a text: objects, arrays, strings without escapes, integers,
   true, false and null, with JSON's whitespace between the tokens. *)
JsonWhitespace == {32, 9, 10, 13}
JsonTrue == Str("true")
JsonFalse == Str("false")
JsonNull == Str("null")

JsonFail == [ok |-> FALSE, val |-> PyNone, pos |-> 0]
JsonOk(v, p) == [ok |-> TRUE, val |-> v, pos |-> p]

RECURSIVE SkipWs(_, _)
SkipWs(s, i) == IF i <= Len(s) /\ s[i] \in JsonWhitespace THEN SkipWs(s, i + 1) ELSE i

\* the index of the quote closing the string whose first character is at i,
\* or 0 when the string is not closed or holds a control character or escape
RECURSIVE StringEnd(_, _)
StringEnd(s, i) ==
  IF i > Len(s) THEN 0
  ELSE IF s[i] = 34 THEN i
  ELSE IF s[i] < 32 \/ s[i] = 92 THEN 0
  ELSE StringEnd(s, i + 1)

IsDigit(c) == c >= 48 /\ c <= 57

\* the index after the digits that start at i
RECURSIVE DigitsEnd(_, _)
DigitsEnd(s, i) == IF i <= Len(s) /\ IsDigit(s[i]) THEN DigitsEnd(s, i + 1) ELSE i

\* the number written by the digits s[i..j-1]
RECURSIVE DigitsValue(_, _, _, _)
DigitsValue(s, i, j, acc) ==
  IF i >= j THEN acc ELSE DigitsValue(s, i + 1, j, acc * 10 + (s[i] - 48))

\* an integer at i: an optional minus sign, then 0 or digits not starting with 0
ParseNumber(s, i) ==
  LET d == IF s[i] = 45 THEN i + 1 ELSE i
      j == DigitsEnd(s, d)
  IN IF j = d THEN JsonFail
     ELSE IF s[d] = 48
       THEN JsonOk(PyInt(0), d + 1)
     ELSE JsonOk(PyInt(IF d = i THEN DigitsValue(s, d, j, 0)
                                ELSE 0 - DigitsValue(s, d, j, 0)), j)

HasAt(s, i, lit) == i + Len(lit) - 1 <= Len(s) /\ SubSeq(s, i, i + Len(lit) - 1) = lit

RECURSIVE ParseValue(_, _)
RECURSIVE ParseItems(_, _, _)
RECURSIVE ParseMembers(_, _, _)

\* the items of an array from i on, after those of acc
ParseItems(s, i, acc) ==
  LET v == ParseValue(s, i)
      k == SkipWs(s, v.pos)
  IN IF ~v.ok \/ k > Len(s) THEN JsonFail
     ELSE IF s[k] = 44 THEN ParseItems(s, k + 1, Append(acc, v.val))
     ELSE IF s[k] = 93 THEN JsonOk(PyList(Append(acc, v.val)), k + 1)
     ELSE JsonFail

\* the members of an object from i on, after those of acc
ParseMembers(s, i, acc) ==
  LET j == SkipWs(s, i)
      e == IF j <= Len(s) /\ s[j] = 34 THEN StringEnd(s, j + 1) ELSE 0
      c == SkipWs(s, e + 1)
      v == ParseValue(s, c + 1)
      k == SkipWs(s, v.pos)
      d == DictSet(acc, SubSeq(s, j + 1, e - 1), v.val)
  IN IF e = 0 \/ c > Len(s) THEN JsonFail
     ELSE IF s[c] # 58 THEN JsonFail
     ELSE IF ~v.ok \/ k > Len(s) THEN JsonFail
     ELSE IF s[k] = 44 THEN ParseMembers(s, k + 1, d)
     ELSE IF s[k] = 125 THEN JsonOk(PyDict(d), k + 1)
     ELSE JsonFail

\* the value that starts at i, whitespace skipped
ParseValue(s, i) ==
  LET j == SkipWs(s, i)
      k == SkipWs(s, j + 1)
      e == StringEnd(s, j + 1)
  IN IF j > Len(s) THEN JsonFail
     ELSE IF s[j] = 123
       THEN IF k <= Len(s) /\ s[k] = 125 THEN JsonOk(PyDict(<<>>), k + 1)
            ELSE ParseMembers(s, k, <<>>)
     ELSE IF s[j] = 91
       THEN IF k <= Len(s) /\ s[k] = 93 THEN JsonOk(PyList(<<>>), k + 1)
            ELSE ParseItems(s, k, <<>>)
     ELSE IF s[j] = 34
       THEN IF e = 0 THEN JsonFail ELSE JsonOk(TextBody(SubSeq(s, j + 1, e - 1)), e + 1)
     ELSE IF s[j] = 45 \/ IsDigit(s[j]) THEN ParseNumber(s, j)
     ELSE IF HasAt(s, j, JsonTrue) THEN JsonOk(PyBool(TRUE), j + 4)
     ELSE IF HasAt(s, j, JsonFalse) THEN JsonOk(PyBool(FALSE), j + 5)
     ELSE IF HasAt(s, j, JsonNull) THEN JsonOk(PyNone, j + 4)
     ELSE JsonFail

\* json.loads(s): ok with the value, or not ok for JSONDecodeError; what
\* follows the value must be whitespace
JsonLoads(s) ==
  LET v == ParseValue(s, 1)
  IN IF v.ok /\ SkipWs(s, v.pos) = Len(s) + 1 THEN v ELSE JsonFail

\* variant of GetJson: a list body is returned as it is, too
GetJsonListToo(e) ==
  IF e.body.kind \in {"dict", "list"} THEN e.body
  ELSE IF e.body.kind = "str" /\ IsJson(e)
    THEN IF JsonLoads(e.body.val).ok THEN JsonLoads(e.body.val).val ELSE PyNone
  ELSE PyNone

\* variant of GetJson: JSONDecodeError is not caught
GetJsonNoCatch(e) ==
  IF e.body.kind = "dict" THEN e.body
  ELSE IF e.body.kind = "str" /\ IsJson(e)
    THEN IF JsonLoads(e.body.val).ok THEN JsonLoads(e.body.val).val
         ELSE PyRaise("JSONDecodeError")
  ELSE PyNone

GetJson(e) ==
  IF e.body.kind = "dict" THEN e.body
  ELSE IF e.body.kind = "str" /\ IsJson(e)
    THEN IF JsonLoads(e.body.val).ok THEN JsonLoads(e.body.val).val ELSE PyNone
  ELSE PyNone

\* variant of AfterGetJson: the parsed value replaces the body
AfterGetJsonCached(e) ==
  IF e.body.kind = "str" /\ IsJson(e) /\ JsonLoads(e.body.val).ok
    THEN [e EXCEPT !.body = JsonLoads(e.body.val).val]
    ELSE e

\* the Event after get_json(): the method assigns to no field
AfterGetJson(e) == e

(* xml.etree.ElementTree.fromstring on a text: elements with attributes in
   double quotes, character data without entity references, no comments,
   declarations or CDATA sections.  An Element is its tag, its attributes in
   document order, its text (the character data before the first child, ""
   for None) and its children. *)
Element(tag, attrib, text, children) ==
  [tag |-> tag, attrib |-> attrib, text |-> text, children |-> children]

XmlFail == [ok |-> FALSE, el |-> Element(EmptyText, <<>>, EmptyText, <<>>), pos |-> 0]
XmlOk(el, p) == [ok |-> TRUE, el |-> el, pos |-> p]

\* the character at i, 0 past the end of the text
At(s, i) == IF i >= 1 /\ i <= Len(s) THEN s[i] ELSE 0

\* letters, digits and _ - . : make up a name
IsNameChar(c) ==
  \/ c >= 97 /\ c <= 122
  \/ c >= 65 /\ c <= 90
  \/ IsDigit(c)
  \/ c \in {95, 45, 46, 58}

\* the index after the name that starts at i
RECURSIVE NameEnd(_, _)
NameEnd(s, i) == IF IsNameChar(At(s, i)) THEN NameEnd(s, i + 1) ELSE i

\* the index of the first occurrence of c from i on, 0 if there is none
RECURSIVE IndexOf(_, _, _)
IndexOf(s, c, i) ==
  IF i > Len(s) THEN 0 ELSE IF s[i] = c THEN i ELSE IndexOf(s, c, i + 1)

\* the attributes name="value" from i on, after those of acc; pos is the
\* index of what ends the tag
RECURSIVE ParseAttrs(_, _, _)
ParseAttrs(s, i, acc) ==
  LET j == SkipWs(s, i)
      n == NameEnd(s, j)
      q == IndexOf(s, 34, n + 2)
  IN IF n = j THEN [ok |-> TRUE, attrib |-> acc, pos |-> j]
     ELSE IF At(s, n) # 61 \/ At(s, n + 1) # 34 \/ q = 0 \/ DictHas(acc, SubSeq(s, j, n - 1))
       THEN [ok |-> FALSE, attrib |-> acc, pos |-> 0]
     ELSE ParseAttrs(s, q + 1,
                     Append(acc, <<SubSeq(s, j, n - 1), SubSeq(s, n + 2, q - 1)>>))

RECURSIVE ParseElement(_, _)
RECURSIVE ParseContent(_, _, _)

\* the content of el from i on, up to and including its end tag
ParseContent(s, i, el) ==
  LET j == IndexOf(s, 60, i)
      el2 == IF Len(el.children) = 0 THEN [el EXCEPT !.text = SubSeq(s, i, j - 1)] ELSE el
      n == NameEnd(s, j + 2)
      k == SkipWs(s, n)
      c == ParseElement(s, j)
  IN IF j = 0 THEN XmlFail
     ELSE IF At(s, j + 1) = 47
       THEN IF SubSeq(s, j + 2, n - 1) = el.tag /\ At(s, k) = 62
              THEN XmlOk(el2, k + 1)
              ELSE XmlFail
     ELSE IF ~c.ok THEN XmlFail
     ELSE ParseContent(s, c.pos, [el2 EXCEPT !.children = Append(@, c.el)])

\* the element whose start tag opens at i
ParseElement(s, i) ==
  LET n == NameEnd(s, i + 1)
      a == ParseAttrs(s, n, <<>>)
      el == Element(SubSeq(s, i + 1, n - 1), a.attrib, EmptyText, <<>>)
  IN IF At(s, i) # 60 \/ n = i + 1 \/ ~a.ok THEN XmlFail
     ELSE IF At(s, a.pos) = 47 /\ At(s, a.pos + 1) = 62 THEN XmlOk(el, a.pos + 2)
     ELSE IF At(s, a.pos) = 62 THEN ParseContent(s, a.pos + 1, el)
     ELSE XmlFail

\* ET.fromstring(s): ok with the root element, or not ok for ParseError
XmlFromString(s) ==
  LET r == ParseElement(s, SkipWs(s, 1))
  IN IF r.ok /\ SkipWs(s, r.pos) = Len(s) + 1 THEN r ELSE XmlFail

\* str.strip() of a text whose whitespace is blank, tab and line ends
RECURSIVE Strip(_)
Strip(t) ==
  IF t = <<>> THEN t
  ELSE IF t[1] \in JsonWhitespace THEN Strip(Tail(t))
  ELSE IF t[Len(t)] \in JsonWhitespace THEN Strip(SubSeq(t, 1, Len(t) - 1))
  ELSE t

AttributesKey == Str("@attributes")
TextKey == Str("text")

\* element.attrib as a dict of texts
AttribDict(attrib) == PyDict([i \in 1..Len(attrib) |-> <<attrib[i][1], TextBody(attrib[i][2])>>])

\* one turn of the loop over the children: child_data is put under child.tag,
\* or joins what is there already in a list
AddChild(res, tag, child_data) ==
  IF DictHas(res, tag)
    THEN LET old == DictGet(res, tag, PyNone)
         IN IF old.kind = "list"
              THEN DictSet(res, tag, PyList(Append(old.val, child_data)))
              ELSE DictSet(res, tag, PyList(<<old, child_data>>))
    ELSE DictSet(res, tag, child_data)

RECURSIVE XmlToDict(_)
RECURSIVE AddChildren(_, _, _)

\* the loop over the children from the k-th on
AddChildren(res, children, k) ==
  IF k > Len(children) THEN res
  ELSE AddChildren(AddChild(res, children[k].tag, XmlToDict(children[k])), children, k + 1)

\* _xml_to_dict(element)
XmlToDict(element) ==
  LET attrs == IF element.attrib # <<>>
                 THEN DictSet(<<>>, AttributesKey, AttribDict(element.attrib))
                 ELSE <<>>
      text == Strip(element.text)
  IN IF text # <<>> /\ Len(element.children) = 0 THEN TextBody(text)
     ELSE PyDict(AddChildren(IF text # <<>> THEN DictSet(attrs, TextKey, TextBody(text))
                                            ELSE attrs,
                             element.children, 1))

GetXml(e) ==
  IF e.body.kind = "str" /\ IsXml(e)
    THEN IF XmlFromString(e.body.val).ok THEN XmlToDict(XmlFromString(e.body.val).el)
         ELSE PyNone
    ELSE PyNone

(* urllib.parse.parse_qs(query_string) with its defaults: fields are separated
   by "&", a field without "=" or with an empty value is dropped, "+" is a
   blank and %XX an escaped byte.  Escaped bytes are decoded as UTF-8; a run
   of escapes that is not UTF-8 becomes one U+FFFD per byte, which is what
   errors="replace" gives for bytes that start no sequence. *)
ReplacementChar == 65533

IsHex(c) == IsDigit(c) \/ (c >= 97 /\ c <= 102) \/ (c >= 65 /\ c <= 70)

HexValue(c) == IF IsDigit(c) THEN c - 48 ELSE IF c >= 97 THEN c - 87 ELSE c - 55

\* an escape %XX starts at i
IsEscape(t, i) == At(t, i) = 37 /\ IsHex(At(t, i + 1)) /\ IsHex(At(t, i + 2))

\* the index after the run of escapes that starts at i
RECURSIVE EscapesEnd(_, _)
EscapesEnd(t, i) == IF IsEscape(t, i) THEN EscapesEnd(t, i + 3) ELSE i

\* the bytes of the escapes t[i..j-1]
EscapedBytes(t, i, j) ==
  [k \in 1..((j - i) \div 3) |->
     HexValue(t[i + 3 * (k - 1) + 1]) * 16 + HexValue(t[i + 3 * (k - 1) + 2])]

\* unquote(t.replace("+", " ")) from i on
RECURSIVE Unquote(_, _)
Unquote(t, i) ==
  IF i > Len(t) THEN <<>>
  ELSE IF IsEscape(t, i)
    THEN LET j == EscapesEnd(t, i)
             b == EscapedBytes(t, i, j)
         IN (IF Utf8Decode(b).ok THEN Utf8Decode(b).text
             ELSE [k \in 1..Len(b) |-> ReplacementChar]) \o Unquote(t, j)
  ELSE <<(IF t[i] = 43 THEN 32 ELSE t[i])>> \o Unquote(t, i + 1)

\* the (name, value) pairs of the fields from i on, in order
RECURSIVE ParseQsl(_, _)
ParseQsl(qs, i) ==
  IF i > Len(qs) THEN <<>>
  ELSE LET a == IndexOf(qs, 38, i)
           j == IF a = 0 THEN Len(qs) + 1 ELSE a
           field == SubSeq(qs, i, j - 1)
           eq == IndexOf(field, 61, 1)
       IN (IF eq = 0 \/ eq = Len(field) THEN <<>>
           ELSE <<<<Unquote(SubSeq(field, 1, eq - 1), 1),
                    Unquote(SubSeq(field, eq + 1, Len(field)), 1)>>>>)
          \o ParseQsl(qs, j + 1)

\* parse_qs: each name with the list of its values, in order
RECURSIVE GroupValues(_, _)
GroupValues(pairs, acc) ==
  IF pairs = <<>> THEN acc
  ELSE GroupValues(Tail(pairs),
                   DictSet(acc, pairs[1][1],
                           Append(DictGet(acc, pairs[1][1], <<>>), TextBody(pairs[1][2]))))

ParseQs(qs) == GroupValues(ParseQsl(qs, 1), <<>>)

\* params.get(name, [default])[0]
GetQueryParam(e, name, default) == DictGet(ParseQs(e.query_string), name, <<default>>)[1]

(* bytes.decode(encoding) *)
CodecUtf8 == {Str("utf_8"), Str("utf8")}
CodecAscii == {Str("ascii"), Str("us_ascii")}
CodecLatin1 == {Str("latin_1"), Str("latin1")}

\* the codec name as the lookup normalises it: lower case, "-" as "_"
NormalizeEncoding(name) ==
  [i \in 1..Len(name) |-> IF name[i] = 45 THEN 95 ELSE LowerChar(name[i])]

\* outcome "ok" with the text, "UnicodeDecodeError", or "LookupError" for a name
\* that is no codec; empty bytes decode to "" before the codec is looked up
BytesDecode(b, encoding) ==
  LET n == NormalizeEncoding(encoding)
  IN IF b = <<>> THEN [outcome |-> "ok", text |-> <<>>]
     ELSE IF n \in CodecUtf8
       THEN IF Utf8Decode(b).ok THEN [outcome |-> "ok", text |-> Utf8Decode(b).text]
            ELSE [outcome |-> "UnicodeDecodeError", text |-> <<>>]
     ELSE IF n \in CodecAscii
       THEN IF \A i \in 1..Len(b) : b[i] < 128 THEN [outcome |-> "ok", text |-> b]
            ELSE [outcome |-> "UnicodeDecodeError", text |-> <<>>]
     ELSE IF n \in CodecLatin1 THEN [outcome |-> "ok", text |-> b]
     ELSE [outcome |-> "LookupError", text |-> <<>>]

GetText(e, encoding) ==
  IF e.body.kind = "str" THEN e.body
  ELSE IF e.body.kind = "bytes"
    THEN LET r == BytesDecode(e.body.val, encoding)
         IN IF r.outcome = "ok" THEN TextBody(r.text)
            ELSE IF r.outcome = "UnicodeDecodeError" THEN PyNone
            ELSE PyRaise(r.outcome)
  ELSE PyNone

GetBinary(e) == IF e.body.kind = "bytes" THEN e.body ELSE PyNone

(* base64.b64encode *)
Base64Alphabet == Str("ABCDEFGHIJKLMNOPQRSTUVWXYZabcdefghijklmnopqrstuvwxyz0123456789+/")
Base64Pad == 61

\* the character of a 6-bit group
Sextet(n) == Base64Alphabet[n + 1]

RECURSIVE B64Encode(_)
B64Encode(b) ==
  IF Len(b) = 0 THEN <<>>
  ELSE IF Len(b) = 1
    THEN <<Sextet(b[1] \div 4), Sextet((b[1] % 4) * 16), Base64Pad, Base64Pad>>
  ELSE IF Len(b) = 2
    THEN <<Sextet(b[1] \div 4), Sextet((b[1] % 4) * 16 + b[2] \div 16),
           Sextet((b[2] % 16) * 4), Base64Pad>>
  ELSE <<Sextet(b[1] \div 4), Sextet((b[1] % 4) * 16 + b[2] \div 16),
         Sextet((b[2] % 16) * 4 + b[3] \div 64), Sextet(b[3] % 64)>>
       \o B64Encode(SubSeq(b, 4, Len(b)))

\* variant of GetBase64: the text is left without padding
GetBase64Unpadded(e) ==
  IF e.body.kind = "bytes"
    THEN TextBody(SelectSeq(B64Encode(e.body.val), LAMBDA c : c # Base64Pad))
    ELSE PyNone

\* base64.b64encode(self.body).decode("ascii")
GetBase64(e) == IF e.body.kind = "bytes" THEN TextBody(B64Encode(e.body.val)) ELSE PyNone

-----------------------------------------------------------------------------
(* What a step of adapt_asgi_request ends with: the Event it returns, or    *)
(* the exception it raises                                                  *)

Returned(e) == [kind |-> "event", event |-> e]
Raised(exc, detail) == [kind |-> "exception", exc |-> exc, detail |-> detail]

-----------------------------------------------------------------------------
(* The ASGI scope: a mapping-like object.  keys are the keys it holds;      *)
(* raises are the keys whose lookup raises KeyError (a dict has none).      *)

ScopeKeys == {"method", "path", "query_string", "headers"}

\* variant of ScopeGet: the default is not used for an absent key
ScopeGetNoDefault(sc, k, default) == sc[k]

\* scope.get(k, default), for a key whose lookup does not raise
ScopeGet(sc, k, default) == IF k \in sc.keys THEN sc[k] ELSE default

\* the first key of ks, in evaluation order, whose lookup raises; "" if none
FirstRaising(sc, ks) ==
  IF \E i \in 1..Len(ks) : ks[i] \in sc.raises
    THEN ks[CHOOSE i \in 1..Len(ks) :
              ks[i] \in sc.raises /\ \A j \in 1..(i - 1) : ks[j] \notin sc.raises]
    ELSE ""

-----------------------------------------------------------------------------
(* An ASGI message: a dict; keys are the keys it holds *)

\* message.get(k, default)
MsgGet(m, k, default) == IF k \in m.keys THEN m[k] ELSE default

-----------------------------------------------------------------------------
(* _convert_body *)

text_types ==
  <<Str("text/"), Str("application/json"), Str("application/xml"),
    Str("application/x-www-form-urlencoded"), Str("multipart/")>>

\* any(content_type.startswith(t) for t in text_types)
IsTextType(content_type) ==
  \E i \in 1..Len(text_types) : StartsWith(content_type, text_types[i])

\* variant of ConvertBody: no test for the empty body
ConvertBodyNoEmptyCheck(b, content_type) ==
  IF IsTextType(Lower(content_type))
    THEN IF Utf8Decode(b).ok THEN TextBody(Utf8Decode(b).text) ELSE BytesBody(b)
    ELSE BytesBody(b)

\* variant of ConvertBody: the content type is not lower-cased
ConvertBodyCaseSensitive(b, content_type) ==
  IF b = <<>> THEN NoBody
  ELSE IF IsTextType(content_type)
    THEN IF Utf8Decode(b).ok THEN TextBody(Utf8Decode(b).text) ELSE BytesBody(b)
    ELSE BytesBody(b)

\* variant of ConvertBody: a body that does not decode is dropped
ConvertBodyDropUndecodable(b, content_type) ==
  IF b = <<>> THEN NoBody
  ELSE IF IsTextType(Lower(content_type))
    THEN IF Utf8Decode(b).ok THEN TextBody(Utf8Decode(b).text) ELSE NoBody
    ELSE BytesBody(b)

ConvertBody(b, content_type) ==
  IF b = <<>> THEN NoBody
  ELSE IF IsTextType(Lower(content_type))
    THEN IF Utf8Decode(b).ok THEN TextBody(Utf8Decode(b).text) ELSE BytesBody(b)
    ELSE BytesBody(b)

-----------------------------------------------------------------------------
(* adapt_asgi_request: the code between two awaits *)

\* the header loop: decode name then value of each pair, in order, into a dict
RECURSIVE DecodeHeadersFrom(_, _, _)
DecodeHeadersFrom(raw, i, acc) ==
  IF i > Len(raw) THEN [ok |-> TRUE, headers |-> acc, detail |-> <<>>]
  ELSE IF ~Utf8Decode(raw[i][1]).ok
    THEN [ok |-> FALSE, headers |-> <<>>, detail |-> Utf8Decode(raw[i][1]).detail]
  ELSE IF ~Utf8Decode(raw[i][2]).ok
    THEN [ok |-> FALSE, headers |-> <<>>, detail |-> Utf8Decode(raw[i][2]).detail]
  ELSE DecodeHeadersFrom(raw, i + 1,
         DictSet(acc, Utf8Decode(raw[i][1]).text, Utf8Decode(raw[i][2]).text))

DecodeHeaders(raw) == DecodeHeadersFrom(raw, 1, <<>>)

\* the end of the try block, once the body is drained: decode the headers,
\* convert the body, build the Event
BuildEvent(sc, b) ==
  IF "headers" \in sc.raises THEN Raised("KeyError", Repr("headers"))
  ELSE LET dec == DecodeHeaders(ScopeGet(sc, "headers", <<>>)) IN
    IF ~dec.ok THEN Raised("UnicodeDecodeError", dec.detail)
    ELSE LET parsed_body == ConvertBody(b, DictGet(dec.headers, ContentTypeKey, <<>>))
             bad == FirstRaising(sc, <<"method", "path", "query_string">>)
             qs == Utf8Decode(ScopeGet(sc, "query_string", <<>>))
         IN IF bad # "" THEN Raised("KeyError", Repr(bad))
            ELSE IF ~qs.ok THEN Raised("UnicodeDecodeError", qs.detail)
            ELSE Returned(MultiCloudEvent(ScopeGet(sc, "method", DefaultMethod),
                                          ScopeGet(sc, "path", DefaultPath),
                                          dec.headers, qs.text, parsed_body,
                                          SourceTag))

\* the Event of an except clause that reads method and path from the scope;
\* a lookup that raises there leaves the function
DiagnosticEvent(sc, prefix, detail) ==
  LET bad == FirstRaising(sc, <<"method", "path">>) IN
  IF bad # "" THEN Raised("KeyError", Repr(bad))
  ELSE Returned(MultiCloudEvent(ScopeGet(sc, "method", DefaultMethod),
                                ScopeGet(sc, "path", DefaultPath),
                                <<<<XError, prefix \o detail>>>>,
                                <<>>, NoBody, SourceTag))

\* except (ConnectionError, asyncio.TimeoutError)
OnConnectionError(sc, detail) == DiagnosticEvent(sc, ConnectionErrorPrefix, detail)

\* variant of OnEncodingError: the message of the clause above
OnEncodingErrorAsConnection(sc, detail) ==
  DiagnosticEvent(sc, ConnectionErrorPrefix, detail)

\* except (UnicodeDecodeError, UnicodeError)
OnEncodingError(sc, detail) == DiagnosticEvent(sc, EncodingErrorPrefix, detail)

\* variant of OnKeyError: method and path read from the scope, as in the
\* other clauses
OnKeyErrorFromScope(detail) ==
  Returned(MultiCloudEvent(ScopeGet(scope, "method", DefaultMethod),
                           ScopeGet(scope, "path", DefaultPath),
                           <<<<XError, MissingKeyPrefix \o detail>>>>,
                           <<>>, NoBody, SourceTag))

\* except KeyError
OnKeyError(detail) ==
  Returned(MultiCloudEvent(DefaultMethod, DefaultPath,
                           <<<<XError, MissingKeyPrefix \o detail>>>>,
                           <<>>, NoBody, SourceTag))

\* the try statement: what the function ends with when its try block ends with o
Handle(sc, o) ==
  IF o.kind = "event" THEN o
  ELSE IF o.exc \in {"ConnectionError", "TimeoutError"} THEN OnConnectionError(sc, o.detail)
  ELSE IF o.exc = "UnicodeDecodeError" THEN OnEncodingError(sc, o.detail)
  ELSE IF o.exc = "KeyError" THEN OnKeyError(o.detail)
  ELSE o


-----------------------------------------------------------------------------
(* Inputs *)

\* byte strings a body chunk may carry, of sizes 0, 1 and 2: 0xC3 0xA9 is the
\* UTF-8 form of one character, so a chunk boundary may fall inside a character
Payloads == {<<>>, <<169>>, <<97, 195>>}

Msg(keys, type, payload, more_body) ==
  [keys |-> keys, type |-> type, body |-> payload, more_body |-> more_body]

NoMessage == Msg({}, "", <<>>, FALSE)

\* what receive() may deliver
Messages ==
  {Msg({"type", "body", "more_body"}, "http.request", p, mb) :
      p \in Payloads, mb \in BOOLEAN}
  \cup {Msg({"type", "body"}, "http.request", <<169>>, FALSE)}
  \cup {Msg({"type", "more_body"}, "http.request", <<>>, mb) : mb \in BOOLEAN}
  \cup {Msg({"type"}, "http.disconnect", <<>>, FALSE),
        Msg({"type", "body"}, "http.disconnect", <<97>>, FALSE),
        Msg({"type", "body", "more_body"}, "http.disconnect", <<97>>, TRUE),
        Msg({"body", "more_body"}, "", <<97>>, FALSE)}

NoFault == [exc |-> "none", detail |-> <<>>]

\* what receive() may raise
Faults ==
  {[exc |-> "ConnectionError", detail |-> Str("Connection lost")],
   [exc |-> "TimeoutError", detail |-> Str("Request timeout")]}

\* raw header lists of a scope
HeaderLists ==
  {<<>>,
   <<<<Str("content-type"), Str("text/plain")>>>>,
   <<<<Str("content-type"), Str("application/json")>>>>,
   <<<<Str("content-type"), Str("Text/HTML")>>>>,
   <<<<Str("content-type"), Str("image/png")>>>>,
   <<<<Str("Content-Type"), Str("application/json")>>>>,
   <<<<Str("content-type"), Str("image/png")>>, <<Str("content-type"), Str("text/plain")>>>>,
   <<<<Str("x-a"), <<169>>>>>>,
   <<<<<<195>>, Str("v")>>>>,
   <<<<Str("content-type"), Str("text/plain")>>, <<Str("x-a"), <<97, 195>>>>>>,
   <<<<Str("X-A"), Str("1")>>, <<Str("x-a"), Str("2")>>>>,
   <<<<Str("x-error"), Str("spoofed")>>>>}

MkScope(keys, raises, method, path, query_string, headers) ==
  [keys |-> keys, raises |-> raises, method |-> method, path |-> path,
   query_string |-> query_string, headers |-> headers]

\* a dict scope holding the keys ks; an absent key has no value
DictScope(ks, qs, hs) ==
  MkScope(ks, {},
          IF "method" \in ks THEN Str("POST") ELSE <<>>,
          IF "path" \in ks THEN Str("/api") ELSE <<>>,
          IF "query_string" \in ks THEN qs ELSE <<>>,
          IF "headers" \in ks THEN hs ELSE <<>>)

\* a scope object whose every lookup raises KeyError
RaisingScope == MkScope({}, ScopeKeys, <<>>, <<>>, <<>>, <<>>)

Scopes ==
  {DictScope(ks, qs, hs) :
      ks \in SUBSET ScopeKeys, qs \in {Str("a=1"), <<169>>}, hs \in HeaderLists}
  \cup {RaisingScope}

-----------------------------------------------------------------------------
(* The invocation *)

\* no Event constructed by a caller, no accessor called
NoEvent == [kind |-> "none"]
\* no ConfigManager is used and no further invocation runs
Apart == config_data = PyNone /\ config_file = PyNone /\ invocations = <<>>

NoCall == [op |-> "none", params |-> <<>>]

Init ==
  /\ scope \in Scopes
  /\ pc = "start"
  /\ message = NoMessage
  /\ body = <<>>
  /\ received = <<>>
  /\ fault = NoFault
  /\ result = [kind |-> "none"]
  /\ event = NoEvent
  /\ made = NoEvent
  /\ call = NoCall
  /\ ret = PyNone
  /\ prev = [call |-> NoCall, ret |-> PyNone]
  /\ Apart

\* variant of IsBodyChunk: the kind of the message is not looked at
IsBodyChunkAlways(m) == TRUE

\* message["type"] == "http.request", for a message that has a type
IsBodyChunk(m) == m.type = "http.request"

\* variant of Accumulate: the new chunk goes in front
AccumulateFront(b, m) == MsgGet(m, "body", <<>>) \o b

\* body += message.get("body", b"")
Accumulate(b, m) == b \o MsgGet(m, "body", <<>>)

\* variant of MoreBody: a message with a payload counts as announcing more
MoreBodyIfPayload(m) == MsgGet(m, "more_body", FALSE) \/ MsgGet(m, "body", <<>>) # <<>>

\* message.get("more_body", False)
MoreBody(m) == MsgGet(m, "more_body", FALSE)

\* the function ends with o
Finish(o) ==
  /\ pc' = IF o.kind = "event" THEN "returned" ELSE "raised"
  /\ result' = o

\* message = await receive() delivers m, first call; then the code up to the
\* next await or to the end of the function
ReceiveFirst ==
  /\ pc = "start"
  /\ \E m \in Messages :
       /\ message' = m
       /\ received' = Append(received, m)
       /\ IF "type" \notin m.keys
            THEN /\ body' = <<>>
                 /\ Finish(Handle(scope, Raised("KeyError", Repr("type"))))
          ELSE IF IsBodyChunk(m)
            THEN /\ body' = MsgGet(m, "body", <<>>)
                 /\ IF MoreBody(m)
                      THEN pc' = "loop" /\ UNCHANGED result
                      ELSE Finish(Handle(scope, BuildEvent(scope, body')))
          ELSE /\ body' = <<>>
               /\ Finish(Handle(scope, BuildEvent(scope, <<>>)))
  /\ UNCHANGED <<scope, fault>>
  /\ UNCHANGED <<accessorVars, storeVars, invocations>>

\* message = await receive() delivers m inside the while loop; then the code
\* up to the next await or to the end of the function
ReceiveMore ==
  /\ pc = "loop"
  /\ Len(received) < MaxChunks
  /\ \E m \in Messages :
       /\ message' = m
       /\ received' = Append(received, m)
       /\ body' = Accumulate(body, m)
       /\ IF MoreBody(m)
            THEN pc' = "loop" /\ UNCHANGED result
            ELSE Finish(Handle(scope, BuildEvent(scope, body')))
  /\ UNCHANGED <<scope, fault>>
  /\ UNCHANGED <<accessorVars, storeVars, invocations>>

\* await receive() raises, at the first call or inside the loop
ReceiveRaises ==
  /\ pc \in {"start", "loop"}
  /\ Len(received) < MaxChunks
  /\ \E f \in Faults :
       /\ fault' = f
       /\ Finish(Handle(scope, Raised(f.exc, f.detail)))
  /\ UNCHANGED <<scope, message, body, received>>
  /\ UNCHANGED <<accessorVars, storeVars, invocations>>

Next == ReceiveFirst \/ ReceiveMore \/ ReceiveRaises

Spec == Init /\ [][Next]_vars

-----------------------------------------------------------------------------
(* The invocation on a channel that ends: after MaxChunks messages the next
   one it delivers has more_body clear or absent.  The event loop resumes the
   coroutine whenever its receive completes, hence the weak fairness. *)

EndingScopes ==
  {RaisingScope,
   DictScope({}, <<>>, <<>>),
   DictScope(ScopeKeys, Str("a=1"), <<<<Str("content-type"), Str("text/plain")>>>>),
   DictScope(ScopeKeys, <<169>>, <<>>)}

InitEnding ==
  /\ scope \in EndingScopes
  /\ pc = "start"
  /\ message = NoMessage
  /\ body = <<>>
  /\ received = <<>>
  /\ fault = NoFault
  /\ result = [kind |-> "none"]
  /\ event = NoEvent
  /\ made = NoEvent
  /\ call = NoCall
  /\ ret = PyNone
  /\ prev = [call |-> NoCall, ret |-> PyNone]
  /\ Apart

\* message = await receive() delivers the last message of the channel inside
\* the while loop; then the code up to the end of the function
ReceiveLast ==
  /\ pc = "loop"
  /\ Len(received) = MaxChunks
  /\ \E m \in Messages :
       /\ ~MsgGet(m, "more_body", FALSE)
       /\ message' = m
       /\ received' = Append(received, m)
       /\ body' = Accumulate(body, m)
       /\ Finish(Handle(scope, BuildEvent(scope, body')))
  /\ UNCHANGED <<scope, fault>>
  /\ UNCHANGED <<accessorVars, storeVars, invocations>>

NextEnding == ReceiveFirst \/ ReceiveMore \/ ReceiveRaises \/ ReceiveLast

SpecEnding == InitEnding /\ [][NextEnding]_vars /\ WF_vars(NextEnding)

-----------------------------------------------------------------------------
(* Accessor calls on Events constructed directly, as the tests of
   MultiCloudEvent construct them *)

UnknownSource == Str("unknown")
TextPost == Str("POST")
TextApi == Str("/api")
TextPlain == Str("text/plain")
TextNone == Str("none")
KeyA == Str("a")

\* header mappings of the constructed Events
EventHeaders ==
  {<<>>,
   <<<<ContentTypeKey, ApplicationJson>>>>,
   <<<<Str("Content-Type"), ApplicationJson>>>>,
   <<<<ContentTypeKey, Str("Text/JSON; charset=utf-8")>>>>,
   <<<<ContentTypeKey, TextPlain>>>>,
   <<<<ContentTypeKey, ApplicationXml>>>>,
   <<<<Str("X-A"), Str("1")>>, <<Str("x-a"), Str("2")>>>>}

\* bodies of the constructed Events: absent, bytes, text, dict, list, number
EventBodies ==
  {PyNone,
   BytesBody(<<>>), BytesBody(<<169>>), BytesBody(<<195, 169>>), BytesBody(Str("abc")),
   TextBody(EmptyText), TextBody(Str("{\"a\": 1}")), TextBody(Str("{\"a\": 1")),
   TextBody(Str("[1, \"b\"]")), TextBody(Str("string body")), TextBody(JsonNull),
   PyDict(<<<<KeyA, PyInt(1)>>>>), PyDict(<<>>),
   PyList(<<TextBody(Str("list")), TextBody(Str("body"))>>), PyList(<<>>),
   PyInt(123)}

Events ==
  {MultiCloudEvent(TextPost, TextApi, h, EmptyText, b, UnknownSource) :
     h \in EventHeaders, b \in EventBodies}

\* names and defaults get_header is called with
HeaderNames ==
  {ContentTypeKey, Str("Content-Type"), Str("CONTENT-TYPE"), Str("x-a"), Str("X-A"),
   Str("x-missing")}
Defaults == {PyNone, TextBody(TextNone)}

\* encodings get_text is called with
Encodings == {Str("utf-8"), Str("UTF8"), Str("ascii"), Str("latin-1"), Str("bogus")}

InitEvent ==
  /\ scope = DictScope({}, EmptyText, <<>>)
  /\ pc = "idle"
  /\ message = NoMessage
  /\ body = <<>>
  /\ received = <<>>
  /\ fault = NoFault
  /\ result = [kind |-> "none"]
  /\ event \in Events
  /\ made = event
  /\ call = NoCall
  /\ ret = PyNone
  /\ prev = [call |-> NoCall, ret |-> PyNone]
  /\ Apart

\* the accessor op is called with params, ends with r and leaves the Event as after
Invoke(op, params, r, after) ==
  /\ pc = "idle"
  /\ prev' = [call |-> call, ret |-> ret]
  /\ call' = [op |-> op, params |-> params]
  /\ ret' = r
  /\ event' = after
  /\ UNCHANGED made
  /\ UNCHANGED <<adapterVars, storeVars, invocations>>

CallGetHeader ==
  \E name \in HeaderNames, default \in Defaults :
    Invoke("get_header", <<name, default>>, GetHeader(event, name, default), event)

CallIsJson == Invoke("is_json", <<>>, PyBool(IsJson(event)), event)

CallIsXml == Invoke("is_xml", <<>>, PyBool(IsXml(event)), event)

CallIsFormData == Invoke("is_form_data", <<>>, PyBool(IsFormData(event)), event)

CallIsMultipart == Invoke("is_multipart", <<>>, PyBool(IsMultipart(event)), event)

CallIsBinary == Invoke("is_binary", <<>>, PyBool(IsBinary(event)), event)

CallGetJson == Invoke("get_json", <<>>, GetJson(event), AfterGetJson(event))

CallGetBinary == Invoke("get_binary", <<>>, GetBinary(event), event)

CallGetText ==
  \E encoding \in Encodings :
    Invoke("get_text", <<encoding>>, GetText(event, encoding), event)

CallGetBase64 == Invoke("get_base64", <<>>, GetBase64(event), event)

NextEvent ==
  \/ CallGetHeader
  \/ CallIsJson
  \/ CallIsXml
  \/ CallIsFormData
  \/ CallIsMultipart
  \/ CallIsBinary
  \/ CallGetJson
  \/ CallGetBinary
  \/ CallGetText
  \/ CallGetBase64

SpecEvent == InitEvent /\ [][NextEvent]_vars

-----------------------------------------------------------------------------
(* get_xml and get_query_param on Events that carry an XML document or a
   query string *)

\* XML texts: attributes on the root, children of one tag, an attribute on a
\* leaf with text, a child named text under a parent with text, an unclosed
\* element, an empty element
XmlBodies ==
  {Str("<user id=\"1\"><name>Jane</name></user>"),
   Str("<users><user>John</user><user>Jane</user></users>"),
   Str("<a><n l=\"e\">J</n></a>"),
   Str("<a>hi<text>x</text></a>"),
   Str("<a><b>"),
   Str("<a/>")}

QueryStrings ==
  {EmptyText, Str("q=python"), Str("tags=python&tags=web"), Str("a=&b=1"),
   Str("a=x+y%41")}

DocumentEvents ==
  {MultiCloudEvent(TextPost, TextApi, <<<<ContentTypeKey, ct>>>>, EmptyText, TextBody(x),
                   UnknownSource) : ct \in {ApplicationXml, TextPlain}, x \in XmlBodies}
  \cup {MultiCloudEvent(TextPost, TextApi, <<>>, qs, PyNone, UnknownSource) :
          qs \in QueryStrings}

\* names and defaults get_query_param is called with
ParamNames == {Str("q"), Str("tags"), Str("a"), Str("b"), Str("limit")}
ParamDefaults == {PyNone, TextBody(Str("20"))}

InitDocument ==
  /\ scope = DictScope({}, EmptyText, <<>>)
  /\ pc = "idle"
  /\ message = NoMessage
  /\ body = <<>>
  /\ received = <<>>
  /\ fault = NoFault
  /\ result = [kind |-> "none"]
  /\ event \in DocumentEvents
  /\ made = event
  /\ call = NoCall
  /\ ret = PyNone
  /\ prev = [call |-> NoCall, ret |-> PyNone]
  /\ Apart

CallGetXml == Invoke("get_xml", <<>>, GetXml(event), event)

CallGetQueryParam ==
  \E name \in ParamNames, default \in ParamDefaults :
    Invoke("get_query_param", <<name, default>>, GetQueryParam(event, name, default), event)

NextDocument ==
  \/ CallGetXml
  \/ CallIsXml
  \/ CallGetQueryParam

SpecDocument == InitDocument /\ [][NextDocument]_vars

-----------------------------------------------------------------------------
(* ConfigManager: src/src/multicloud/cli/config/config_manager.py          *)
(* A configuration is a dict whose values are str or dict; the file is     *)
(* modelled by the document it holds.                                      *)

Dot == 46

\* key.split(".")
RECURSIVE SplitDots(_)
SplitDots(key) ==
  LET i == IndexOf(key, Dot, 1)
  IN IF i = 0 THEN <<key>>
     ELSE <<SubSeq(key, 1, i - 1)>> \o SplitDots(SubSeq(key, i + 1, Len(key)))

\* str < str
RECURSIVE TextLess(_, _)
TextLess(a, b) ==
  IF b = <<>> THEN FALSE
  ELSE IF a = <<>> THEN TRUE
  ELSE IF Head(a) # Head(b) THEN Head(a) < Head(b)
  ELSE TextLess(Tail(a), Tail(b))

\* the pairs of a dict in the order of their keys
RECURSIVE SortItems(_)
SortItems(items) ==
  IF items = <<>> THEN <<>>
  ELSE LET i == CHOOSE j \in 1..Len(items) :
                  \A k \in 1..Len(items) : ~TextLess(items[k][1], items[j][1])
           rest == [k \in 1..(Len(items) - 1) |-> IF k < i THEN items[k] ELSE items[k + 1]]
       IN <<items[i]>> \o SortItems(rest)

\* the file does not exist; the file is not YAML
FileAbsent == [kind |-> "absent"]
FileInvalid == [kind |-> "invalid"]

\* yaml.dump(data, f, default_flow_style=False, indent=2): the document
\* written has the keys of every mapping sorted
RECURSIVE YamlDump(_)
YamlDump(data) ==
  IF data.kind = "dict"
    THEN LET items == SortItems(data.val)
         IN PyDict([i \in 1..Len(items) |-> <<items[i][1], YamlDump(items[i][2])>>])
    ELSE data

\* yaml.safe_load(f): an empty file is None
YamlSafeLoad(file) == IF file = FileInvalid THEN PyRaise("YAMLError") ELSE file

\* bool(value) is False
Falsy(value) ==
  \/ value = PyNone
  \/ value.kind \in {"str", "dict"} /\ value.val = <<>>

\* the texts of the default configuration
TextAuthor == Str("author")
TextName == Str("name")
TextEmail == Str("email")
TextDefaults == Str("defaults")
TextPlatforms == Str("platforms")

\* _create_default_config()
CreateDefaultConfig ==
  PyDict(<<
    <<TextAuthor, PyDict(<<<<TextName, TextBody(<<>>)>>, <<TextEmail, TextBody(<<>>)>>>>)>>,
    <<TextDefaults, PyDict(<<
        <<Str("runtime"), TextBody(Str("python"))>>,
        <<Str("memory"), TextBody(Str("128Mi"))>>,
        <<Str("timeout"), TextBody(Str("30s"))>>,
        <<Str("log_level"), TextBody(Str("INFO"))>>,
        <<Str("license"), TextBody(<<>>)>>,
        <<Str("version"), TextBody(Str("0.1.0"))>>>>)>>,
    <<TextPlatforms, PyDict(<<
        <<Str("knative"), PyDict(<<>>)>>, <<Str("aws"), PyDict(<<>>)>>,
        <<Str("azure"), PyDict(<<>>)>>, <<Str("gcp"), PyDict(<<>>)>>>>)>>
  >>)

\* load_config(): the configuration in memory and the file after the call
LoadConfig(data, file) ==
  IF data # PyNone THEN [data |-> data, file |-> file]
  ELSE IF file = FileAbsent
    THEN [data |-> CreateDefaultConfig, file |-> YamlDump(CreateDefaultConfig)]
  ELSE IF YamlSafeLoad(file).kind = "raise"
    THEN [data |-> CreateDefaultConfig, file |-> file]
  ELSE [data |-> IF Falsy(YamlSafeLoad(file)) THEN PyDict(<<>>) ELSE YamlSafeLoad(file),
        file |-> file]

\* the loop and return of get(): value walks down keys
RECURSIVE GetIn(_, _, _)
GetIn(value, keys, default) ==
  IF keys = <<>> THEN value
  ELSE IF value.kind = "dict" /\ DictHas(value.val, Head(keys))
    THEN GetIn(DictGet(value.val, Head(keys), PyNone), Tail(keys), default)
  ELSE default

\* the loop and the assignment of set() on current: ok is FALSE when an
\* item assignment or a subscript on a str raises TypeError; val is current as
\* the call leaves it
RECURSIVE SetIn(_, _, _)
SetIn(current, keys, value) ==
  IF current.kind # "dict" THEN [ok |-> FALSE, val |-> current]
  ELSE IF Len(keys) = 1
    THEN [ok |-> TRUE, val |-> PyDict(DictSet(current.val, keys[1], value))]
  ELSE LET k == Head(keys)
           made_ == IF DictHas(current.val, k) THEN current.val
                    ELSE DictSet(current.val, k, PyDict(<<>>))
           inner == SetIn(DictGet(made_, k, PyNone), Tail(keys), value)
       IN [ok |-> inner.ok, val |-> PyDict(DictSet(made_, k, inner.val))]

\* get(key, default): what it returns
ConfigGet(data, file, key, default) ==
  GetIn(LoadConfig(data, file).data, SplitDots(key), default)

\* set(key, value): what it returns or raises, and memory and file after it
ConfigSet(data, file, key, value) ==
  LET loaded == LoadConfig(data, file)
      done == SetIn(loaded.data, SplitDots(key), value)
  IN IF done.ok
       THEN [ret |-> PyNone, data |-> done.val, file |-> YamlDump(done.val)]
       ELSE [ret |-> PyRaise("TypeError"), data |-> done.val, file |-> loaded.file]

\* the keys and values the commands are called with
ConfigKeys ==
  {Str("author"), Str("author.name"), Str("author.name.first"), Str("x"), Str("x.y")}
ConfigValues == {TextBody(Str("v")), TextBody(<<>>)}

\* what the file holds when the ConfigManager is constructed
ConfigFiles ==
  {FileAbsent, FileInvalid, PyNone, TextBody(Str("abc")),
   PyDict(<<<<Str("x"), TextBody(Str("w"))>>>>)}

InitConfig ==
  /\ scope = DictScope({}, EmptyText, <<>>)
  /\ pc = "idle"
  /\ message = NoMessage
  /\ body = <<>>
  /\ received = <<>>
  /\ fault = NoFault
  /\ result = [kind |-> "none"]
  /\ event = MultiCloudEvent(TextPost, TextApi, <<>>, <<>>, NoBody, UnknownSource)
  /\ made = event
  /\ call = NoCall
  /\ ret = PyNone
  /\ prev = [call |-> NoCall, ret |-> PyNone]
  /\ config_data = PyNone
  /\ config_file \in ConfigFiles
  /\ invocations = <<>>

\* a method of config_manager is called with params, ends with r and leaves
\* data in memory and file on disk
InvokeConfig(op, params, r, data, file) ==
  /\ pc = "idle"
  /\ prev' = [call |-> call, ret |-> ret]
  /\ call' = [op |-> op, params |-> params]
  /\ ret' = r
  /\ config_data' = data
  /\ config_file' = file
  /\ UNCHANGED <<adapterVars, event, made, invocations>>

CallConfigGet ==
  \E key \in ConfigKeys :
    InvokeConfig("config.get", <<key>>, ConfigGet(config_data, config_file, key, PyNone),
                 LoadConfig(config_data, config_file).data,
                 LoadConfig(config_data, config_file).file)

CallConfigSet ==
  \E key \in ConfigKeys, value \in ConfigValues :
    LET done == ConfigSet(config_data, config_file, key, value)
    IN InvokeConfig("config.set", <<key, value>>, done.ret, done.data, done.file)

NextConfig == CallConfigGet \/ CallConfigSet

SpecConfig == InitConfig /\ [][NextConfig]_vars

-----------------------------------------------------------------------------
(* Concurrent invocations of adapt_asgi_request on one event loop.  Each   *)
(* invocation is a coroutine with its own frame; the event loop runs one   *)
(* of them at a time and switches only at `await receive()`.               *)

Callers == {1, 2}

MaxPairChunks == 2

\* the frame of an invocation before its first receive.  waiting counts the
\* receive calls awaited and not yet answered; overlapped records that the
\* invocation ran a step while another one was inside its loop
Frame(sc) ==
  [scope |-> sc, pc |-> "start", body |-> <<>>, received |-> <<>>,
   fault |-> NoFault, result |-> [kind |-> "none"], waiting |-> 0,
   overlapped |-> FALSE]

\* the frame ends with o
FrameEnds(fr, o) ==
  [fr EXCEPT !.pc = IF o.kind = "event" THEN "returned" ELSE "raised",
             !.result = o, !.waiting = 0]

\* variant of Accumulator: one accumulator of the module, that of the first
\* invocation, is read by all
AccumulatorOfModule(frames, i) == frames[1].body

\* the local variable body of invocation i
Accumulator(frames, i) == frames[i].body

\* the frame after receive() delivered m, acc being the accumulator the loop
\* appends to: the code up to the next await or to the end of the function
OnMessage(fr, acc, m) ==
  LET got == [fr EXCEPT !.received = Append(fr.received, m), !.waiting = 0]
  IN IF fr.pc = "start"
       THEN IF "type" \notin m.keys
              THEN FrameEnds(got, Handle(fr.scope, Raised("KeyError", Repr("type"))))
            ELSE IF IsBodyChunk(m)
              THEN LET b == MsgGet(m, "body", <<>>)
                   IN IF MoreBody(m)
                        THEN [got EXCEPT !.pc = "loop", !.body = b]
                        ELSE FrameEnds([got EXCEPT !.body = b],
                                       Handle(fr.scope, BuildEvent(fr.scope, b)))
            ELSE FrameEnds(got, Handle(fr.scope, BuildEvent(fr.scope, <<>>)))
       ELSE LET b == Accumulate(acc, m)
            IN IF MoreBody(m)
                 THEN [got EXCEPT !.body = b]
                 ELSE FrameEnds([got EXCEPT !.body = b],
                                Handle(fr.scope, BuildEvent(fr.scope, b)))

\* the frame after receive() raised f
OnFault(fr, f) ==
  FrameEnds([fr EXCEPT !.fault = f], Handle(fr.scope, Raised(f.exc, f.detail)))

\* the scopes and messages of the concurrent invocations
PairScopes ==
  {DictScope({"headers"}, Str("a=1"), <<<<Str("content-type"), Str("text/plain")>>>>),
   DictScope({"query_string"}, <<169>>, <<>>),
   DictScope({}, EmptyText, <<>>),
   RaisingScope}

PairMessages ==
  {Msg({"type", "body", "more_body"}, "http.request", <<97, 195>>, TRUE),
   Msg({"type", "body"}, "http.request", <<169>>, FALSE),
   Msg({"type", "body"}, "http.disconnect", <<97>>, FALSE),
   Msg({"body", "more_body"}, "", <<97>>, FALSE)}

InitPair ==
  /\ scope = DictScope({}, EmptyText, <<>>)
  /\ pc = "idle"
  /\ message = NoMessage
  /\ body = <<>>
  /\ received = <<>>
  /\ fault = NoFault
  /\ result = [kind |-> "none"]
  /\ event = MultiCloudEvent(TextPost, TextApi, <<>>, <<>>, NoBody, UnknownSource)
  /\ made = event
  /\ call = NoCall
  /\ ret = PyNone
  /\ prev = [call |-> NoCall, ret |-> PyNone]
  /\ config_data = PyNone
  /\ config_file = PyNone
  /\ invocations \in [Callers -> {Frame(sc) : sc \in PairScopes}]

\* another invocation is inside its loop
OthersInLoop(i) == \E j \in Callers \ {i} : invocations[j].pc = "loop"

Stepped(i, fr) ==
  /\ invocations' =
       [invocations EXCEPT ![i] = [fr EXCEPT !.overlapped = @ \/ OthersInLoop(i)]]
  /\ UNCHANGED <<adapterVars, accessorVars, storeVars>>

\* invocation i reaches `await receive()`: the call is made and the event
\* loop may run another invocation
AwaitReceive(i) ==
  /\ invocations[i].pc \in {"start", "loop"}
  /\ invocations[i].waiting = 0
  /\ Len(invocations[i].received) < MaxPairChunks
  /\ Stepped(i, [invocations[i] EXCEPT !.waiting = @ + 1])

\* the receive invocation i awaits delivers a message
Deliver(i) ==
  /\ invocations[i].waiting > 0
  /\ \E m \in PairMessages :
       Stepped(i, OnMessage(invocations[i], Accumulator(invocations, i), m))

\* the receive invocation i awaits raises
DeliverFault(i) ==
  /\ invocations[i].waiting > 0
  /\ \E f \in Faults : Stepped(i, OnFault(invocations[i], f))

NextPair == \E i \in Callers : AwaitReceive(i) \/ Deliver(i) \/ DeliverFault(i)

SpecPair == InitPair /\ [][NextPair]_vars

-----------------------------------------------------------------------------
(* Vocabulary of the properties *)

Done == pc \in {"returned", "raised"}

\* the try block got past the receive loop: no receive raised and the first
\* message had a type
Drained == Done /\ fault = NoFault /\ received # <<>> /\ "type" \in received[1].keys

\* the payloads of a message sequence, concatenated in arrival order
RECURSIVE ConcatPayloads(_)
ConcatPayloads(ms) ==
  IF ms = <<>> THEN <<>>
  ELSE (IF "body" \in Head(ms).keys THEN Head(ms).body ELSE <<>>) \o ConcatPayloads(Tail(ms))

\* more_body is set in message m
MoreSet(m) == "more_body" \in m.keys /\ m.more_body

\* every message received is a body chunk, and every one but the last has
\* more_body set
ChunkStream ==
  /\ received # <<>>
  /\ \A i \in 1..Len(received) :
       "type" \in received[i].keys /\ received[i].type = "http.request"
  /\ \A i \in 1..(Len(received) - 1) : MoreSet(received[i])

\* the byte strings of the scope that the adapter decodes, in the order it
\* decodes them: each header name, then its value, then the query string
RECURSIVE FlatHeaders(_)
FlatHeaders(raw) ==
  IF raw = <<>> THEN <<>> ELSE <<Head(raw)[1], Head(raw)[2]>> \o FlatHeaders(Tail(raw))

DecodedInOrder(sc) ==
  (IF "headers" \in sc.keys THEN FlatHeaders(sc.headers) ELSE <<>>)
    \o <<IF "query_string" \in sc.keys THEN sc.query_string ELSE <<>>>>

\* the scope holds a byte string that is not valid UTF-8
Undecodable(sc) ==
  \E i \in 1..Len(DecodedInOrder(sc)) : ~Utf8Decode(DecodedInOrder(sc)[i]).ok

\* str(e) of the first decode failure
FirstDecodeError(sc) ==
  LET bs == DecodedInOrder(sc)
      i == CHOOSE j \in 1..Len(bs) :
             ~Utf8Decode(bs[j]).ok /\ \A k \in 1..(j - 1) : Utf8Decode(bs[k]).ok
  IN Utf8Decode(bs[i]).detail

\* the texts the properties name
TextGET == Str("GET")
TextSlash == Str("/")
TextKnative == Str("knative")
TextXError == Str("x-error")
TextContentType == Str("content-type")
TextConnectionError == Str("Connection error: ")
TextEncodingError == Str("Encoding error: ")
TextMissingKey == Str("Missing key: ")

\* method and path as the scope gives them, with the defaults of the adapter
ScopeMethod == IF "method" \in scope.keys THEN scope.method ELSE TextGET
ScopePath == IF "path" \in scope.keys THEN scope.path ELSE TextSlash

\* the diagnostic Event: one x-error header, no query string, no body
Diagnostic(method, path, text) ==
  [method |-> method, path |-> path, headers |-> <<<<TextXError, text>>>>,
   query_string |-> <<>>, body |-> NoBody, source |-> TextKnative]

\* nothing fails: the receive loop has ended, the lookups in the scope do not
\* raise and every byte string of the scope decodes
NormalCase == Drained /\ scope.raises = {} /\ ~Undecodable(scope)

-----------------------------------------------------------------------------
(* C1 *)

\* C1: for a sequence of 'http.request' messages in which every message but
\* the last has more_body set, the accumulator is exactly the concatenation of
\* the payloads in arrival order, at every point of the loop; and once the last
\* message (more_body clear) has arrived, the returned Event's body is made of
\* exactly those bytes.
C1_ChunksConcatenated ==
  ChunkStream =>
    /\ body = ConcatPayloads(received)
    /\ ~MoreSet(received[Len(received)]) /\ NormalCase =>
         /\ pc = "returned"
         /\ result.event.body.kind = "none" => body = <<>>
         /\ result.event.body.kind = "bytes" => result.event.body.val = body
         /\ result.event.body.kind = "str" =>
              result.event.body.val = Utf8Decode(ConcatPayloads(received)).text

\* three non-empty chunks with flags true, true, false were reassembled
C1_Witness ==
  /\ pc = "returned" /\ ChunkStream /\ Len(received) = 3
  /\ received[1].body = <<97, 195>> /\ received[2].body = <<169>>
  /\ received[3].body = <<97, 195>> /\ ~MoreSet(received[3])
  /\ result.event.body = BytesBody(<<97, 195, 169, 97, 195>>)

-----------------------------------------------------------------------------
(* C2 *)

\* C2: whatever the scope and the channel, no exception leaves
\* adapt_asgi_request: the call always ends by returning an Event.
C2_NeverPropagates == pc # "raised"

-----------------------------------------------------------------------------
(* C3 *)

\* C3: when receive raises ConnectionError or TimeoutError the call returns the
\* Event with method and path of the scope (defaults when absent), headers
\* exactly {x-error: "Connection error: <detail>"}, empty query string, no body
\* and source "knative".
C3_ConnectionErrorEvent ==
  fault # NoFault =>
    /\ pc = "returned"
    /\ result.event =
         Diagnostic(ScopeMethod, ScopePath, TextConnectionError \o fault.detail)

\* the same for the scopes whose lookups do not raise
C3_ConnectionErrorEventOfDict ==
  fault # NoFault /\ scope.raises = {} =>
    /\ pc = "returned"
    /\ result.event =
         Diagnostic(ScopeMethod, ScopePath, TextConnectionError \o fault.detail)

-----------------------------------------------------------------------------
(* C4 *)

\* C4: when the receive loop has ended and a header name, a header value or
\* the query string of the scope is not valid UTF-8, the call returns the Event
\* with method and path of the scope, headers exactly
\* {x-error: "Encoding error: <detail of the first decode failure>"}, empty
\* query string, no body and source "knative": no header of the request and no
\* byte of the received body is in it.
C4_EncodingErrorEvent ==
  Drained /\ Undecodable(scope) =>
    /\ pc = "returned"
    /\ result.event =
         Diagnostic(ScopeMethod, ScopePath,
                    TextEncodingError \o FirstDecodeError(scope))

\* a request with a decodable content-type header before an undecodable one,
\* and a body, ended in the diagnostic Event
C4_Witness ==
  /\ pc = "returned" /\ Drained /\ body # <<>>
  /\ "headers" \in scope.keys /\ Len(scope.headers) = 2
  /\ scope.headers[2][2] = <<97, 195>>
  /\ Len(result.event.headers) = 1
  /\ result.event.body = NoBody

-----------------------------------------------------------------------------
(* C5 *)

\* a KeyError was raised inside the try block: by message["type"], or by a
\* scope lookup after the receive loop
KeyErrorInTry ==
  /\ Done /\ fault = NoFault /\ received # <<>>
  /\ "type" \notin received[1].keys \/ scope.raises # {}

\* the key whose lookup raised it
MissingKey ==
  IF "type" \notin received[1].keys THEN "type"
  ELSE FirstRaising(scope, <<"headers", "method", "path", "query_string">>)

\* a KeyError was raised inside an except clause, by a scope lookup there
KeyErrorInHandler == Done /\ fault # NoFault /\ scope.raises # {}

\* C5: when a KeyError is raised during the call (the first message has no
\* 'type', or a lookup in the scope raises it), the returned Event has method
\* "GET" and path "/" whatever the scope holds, headers exactly
\* {x-error: "Missing key: <detail>"}, empty query string, no body and source
\* "knative"; and an Event is returned when the KeyError comes from the try
\* block.
C5_MissingKeyEvent ==
  /\ KeyErrorInTry => pc = "returned"
  /\ (KeyErrorInTry \/ KeyErrorInHandler) /\ pc = "returned" =>
       result.event =
         Diagnostic(TextGET, TextSlash, TextMissingKey \o Repr(MissingKey))

\* a message without 'type' arrived for a scope that holds a method and a path
\* of its own, and the Event has the defaults
C5_Witness ==
  /\ pc = "returned" /\ received # <<>> /\ "type" \notin received[1].keys
  /\ "method" \in scope.keys /\ "path" \in scope.keys
  /\ scope.method # TextGET
  /\ result.event.method = TextGET /\ result.event.path = TextSlash

-----------------------------------------------------------------------------
(* C6 *)

\* the headers of the scope, each name and value decoded, as a dict; for a
\* scope whose headers all decode
RECURSIVE ExpectedHeaders(_)
ExpectedHeaders(raw) ==
  IF raw = <<>> THEN <<>>
  ELSE LET front == ExpectedHeaders(SubSeq(raw, 1, Len(raw) - 1))
           k == Utf8Decode(raw[Len(raw)][1]).text
           v == Utf8Decode(raw[Len(raw)][2]).text
       IN IF \E i \in 1..Len(front) : front[i][1] = k
            THEN [i \in 1..Len(front) |-> IF front[i][1] = k THEN <<k, v>> ELSE front[i]]
            ELSE front \o <<<<k, v>>>>

\* the Event has no x-error header
NoXError(e) == \A i \in 1..Len(e.headers) : e.headers[i][1] # TextXError

\* the request itself carries a header named x-error
SendsXError(sc) ==
  "headers" \in sc.keys /\ \E i \in 1..Len(sc.headers) : sc.headers[i][1] = TextXError

\* the Event has no x-error header but one the request sent
NoXErrorAdded(e) == SendsXError(scope) \/ NoXError(e)

\* method, path, query string and headers of the Event are those of the scope,
\* with "GET", "/", "" and {} for the keys the scope lacks
FieldsFromScope(e) ==
  /\ e.method = ScopeMethod
  /\ e.path = ScopePath
  /\ e.query_string =
       (IF "query_string" \in scope.keys THEN Utf8Decode(scope.query_string).text ELSE <<>>)
  /\ e.headers = (IF "headers" \in scope.keys THEN ExpectedHeaders(scope.headers) ELSE <<>>)
  /\ e.source = TextKnative

-----------------------------------------------------------------------------
(* C7 *)

\* C7: whenever the accumulated bytes are empty, the body of the returned
\* Event is unset: never empty text or an empty byte string, whatever the
\* content-type.
C7_EmptyBodyUnset ==
  pc = "returned" /\ body = <<>> => result.event.body = NoBody

\* three empty chunks under a text content-type gave an Event without body
C7_Witness ==
  /\ pc = "returned" /\ NormalCase /\ ChunkStream /\ Len(received) = 3
  /\ body = <<>>
  /\ "headers" \in scope.keys
  /\ scope.headers = <<<<TextContentType, Str("text/plain")>>>>
  /\ result.event.body = NoBody

-----------------------------------------------------------------------------
(* C8 *)

\* the allow-list of the claim
ClaimedTextPrefixes ==
  {Str("text/"), Str("application/json"), Str("application/xml"),
   Str("application/x-www-form-urlencoded"), Str("multipart/")}

\* the value the Event holds under the header name content-type, "" if none
DeclaredContentType(e) ==
  IF \E i \in 1..Len(e.headers) : e.headers[i][1] = TextContentType
    THEN e.headers[CHOOSE i \in 1..Len(e.headers) : e.headers[i][1] = TextContentType][2]
    ELSE <<>>

\* lower-cased, it starts with a prefix of the allow-list
DeclaredTextLike(e) ==
  \E p \in ClaimedTextPrefixes :
    /\ Len(DeclaredContentType(e)) >= Len(p)
    /\ \A i \in 1..Len(p) : LowerChar(DeclaredContentType(e)[i]) = p[i]

\* C8: for a non-empty accumulated body that is valid UTF-8, the Event's body
\* is the decoded text if and only if the lower-cased value of its content-type
\* header starts with a prefix of the allow-list; otherwise (no content-type
\* header included) it is the raw bytes.
C8_TextIffAllowListed ==
  NormalCase /\ body # <<>> /\ Utf8Decode(body).ok =>
    /\ pc = "returned"
    /\ DeclaredTextLike(result.event) <=>
         result.event.body = TextBody(Utf8Decode(body).text)
    /\ ~DeclaredTextLike(result.event) <=> result.event.body = BytesBody(body)

\* a body cut inside a two-byte character was decoded under a content-type
\* written in upper case
C8_Witness ==
  /\ pc = "returned" /\ NormalCase /\ Len(received) = 2
  /\ body = <<97, 195, 169>>
  /\ DeclaredContentType(result.event) = Str("Text/HTML")
  /\ result.event.body = TextBody(<<97, 233>>)

\* the same body stayed bytes for a request without content-type
C8_WitnessBinary ==
  /\ pc = "returned" /\ NormalCase
  /\ body = <<97, 195, 169>>
  /\ DeclaredContentType(result.event) = <<>>
  /\ result.event.body = BytesBody(<<97, 195, 169>>)

-----------------------------------------------------------------------------
(* C9 *)

\* C9: when the content-type is in the allow-list and the accumulated bytes
\* are not valid UTF-8, the call returns a normal Event whose body is the
\* unmodified bytes: no x-error header (but one the request itself sent), and
\* headers, method, path and query string of the request are kept.
C9_UndecodableBodyKept ==
  NormalCase /\ body # <<>> /\ ~Utf8Decode(body).ok
             /\ "headers" \in scope.keys
             /\ DeclaredTextLike([headers |-> ExpectedHeaders(scope.headers)]) =>
    /\ pc = "returned"
    /\ result.event.body = BytesBody(body)
    /\ NoXErrorAdded(result.event)
    /\ FieldsFromScope(result.event)

\* an undecodable body under application/json
C9_Witness ==
  /\ pc = "returned" /\ NormalCase
  /\ body = <<97, 195>>
  /\ DeclaredContentType(result.event) = Str("application/json")
  /\ result.event.body = BytesBody(<<97, 195>>)
  /\ result.event.method = Str("POST")

-----------------------------------------------------------------------------
(* C10 *)

\* the first message has a type other than 'http.request'
FirstNotBodyChunk ==
  received # <<>> /\ "type" \in received[1].keys /\ received[1].type # "http.request"

TextXa == Str("x-a")
TextXA == Str("X-A")
TextOne == Str("1")
TextStringBody == Str("string body")
TextJsonObject == Str("{\"a\": 1}")
TextJsonUnclosed == Str("{\"a\": 1")
TextJsonArray == Str("[1, \"b\"]")
TextB == Str("b")
TextContentTypeTitle == Str("Content-Type")
TextAbc == Str("abc")
Base64OfAbc == Str("YWJj")
Base64Of169 == Str("qQ==")
Base64Of195169 == Str("w6k=")

-----------------------------------------------------------------------------
(* C11 *)

\* C11: the Event of a request whose ingestion raised no fault has no x-error
\* header, whatever headers the client sent.
C11_XErrorOnlyOnFailure == NormalCase /\ pc = "returned" => NoXError(result.event)

-----------------------------------------------------------------------------
(* C12 *)

\* str.upper() on an ASCII text
Upper(s) == [i \in 1..Len(s) |-> IF s[i] >= 97 /\ s[i] <= 122 THEN s[i] - 32 ELSE s[i]]

\* a text with every second letter in upper case
Mixed(s) == [i \in 1..Len(s) |-> IF i % 2 = 0 THEN Upper(s)[i] ELSE LowerChar(s[i])]

\* case variants of a header name
CaseVariants(k) == {k, Lower(k), Upper(k), Mixed(k)}

\* the decoded name and value of the i-th header pair of the scope
HeaderName(i) == Utf8Decode(scope.headers[i][1]).text
HeaderValue(i) == Utf8Decode(scope.headers[i][2]).text

\* C12 as claimed: for every header pair (k, v) of the scope and every case
\* variant k' of decode(k), get_header(k') of the Event is decode(v).
C12_EveryPairLookedUp ==
  NormalCase /\ pc = "returned" /\ "headers" \in scope.keys =>
    \A i \in 1..Len(scope.headers) : \A k \in CaseVariants(HeaderName(i)) :
      GetHeader(result.event, k, PyNone) = TextBody(HeaderValue(i))

\* the first pair whose name equals that of pair i ignoring case
FirstNamedLike(i) ==
  CHOOSE f \in 1..Len(scope.headers) :
    /\ Lower(HeaderName(f)) = Lower(HeaderName(i))
    /\ \A j \in 1..(f - 1) : Lower(HeaderName(j)) # Lower(HeaderName(i))

\* the last pair that carries exactly the name of pair f
LastNamed(f) ==
  CHOOSE l \in 1..Len(scope.headers) :
    /\ HeaderName(l) = HeaderName(f)
    /\ \A j \in (l + 1)..Len(scope.headers) : HeaderName(j) # HeaderName(f)

\* C12 amended: for every header pair (k, v) and every case variant k' of
\* decode(k), get_header(k') is decode(v) when no other pair has a name equal
\* to k ignoring case; when several pairs have names equal ignoring case it is,
\* for each of them, the value of the last pair carrying exactly the name of the
\* first of them.
C12_PairLookedUpUnlessShadowed ==
  NormalCase /\ pc = "returned" /\ "headers" \in scope.keys =>
    \A i \in 1..Len(scope.headers) : \A k \in CaseVariants(HeaderName(i)) :
      /\ GetHeader(result.event, k, PyNone) =
           TextBody(HeaderValue(LastNamed(FirstNamedLike(i))))
      /\ (\A j \in 1..Len(scope.headers) :
            j # i => Lower(HeaderName(j)) # Lower(HeaderName(i)))
           => GetHeader(result.event, k, PyNone) = TextBody(HeaderValue(i))

\* a request with the headers X-A: 1 and x-a: 2 was adapted, and looking up
\* x-a in any case gives 1
C12_Witness ==
  /\ NormalCase /\ pc = "returned" /\ "headers" \in scope.keys
  /\ Len(scope.headers) = 2
  /\ HeaderName(1) = TextXA /\ HeaderName(2) = TextXa
  /\ Len(result.event.headers) = 2
  /\ GetHeader(result.event, TextXa, PyNone) = TextBody(TextOne)

-----------------------------------------------------------------------------
(* C13 *)

\* the positions of the stored headers whose name equals name ignoring case
Matching(e, name) == {i \in 1..Len(e.headers) : Lower(e.headers[i][1]) = Lower(name)}

\* the least position of a non-empty set of positions
First(ps) == CHOOSE i \in ps : \A j \in ps : i <= j

\* C13: get_header(name, default) returns the value of the first stored header,
\* in insertion order, whose name equals name ignoring case, and returns default
\* exactly when no stored name matches; the stored names keep their case.
C13_FirstMatchOrDefault ==
  call.op = "get_header" =>
    LET name == call.params[1]
        default == call.params[2]
    IN /\ Matching(made, name) # {} =>
            ret = TextBody(made.headers[First(Matching(made, name))][2])
       /\ Matching(made, name) = {} <=> ret = default
       /\ event.headers = made.headers

\* x-a was looked up in an Event that stores X-A: 1 before x-a: 2
C13_Witness ==
  /\ call.op = "get_header" /\ call.params[1] = TextXa
  /\ Len(made.headers) = 2 /\ made.headers[1][1] = TextXA
  /\ ret = TextBody(TextOne)

-----------------------------------------------------------------------------
(* C14 *)

\* C14 as claimed: get_json() returns a body that is a parsed mapping or a
\* parsed sequence as it is, whatever the content-type.
C14_ParsedBodyAsIs ==
  call.op = "get_json" /\ made.body.kind \in {"dict", "list"} => ret = made.body

\* C14 amended: get_json() returns a body that is a parsed mapping as it is,
\* whatever the content-type, and returns None for a parsed sequence.
C14_MappingAsIsSequenceNone ==
  call.op = "get_json" =>
    /\ made.body.kind = "dict" => ret = made.body
    /\ made.body.kind = "list" => ret = PyNone

\* get_json() answered a non-empty dict body under text/plain
C14_Witness ==
  /\ call.op = "get_json"
  /\ made.body = PyDict(<<<<KeyA, PyInt(1)>>>>)
  /\ made.headers = <<<<ContentTypeKey, TextPlain>>>>
  /\ ret = made.body

-----------------------------------------------------------------------------
(* C15, C16 *)

\* the value of the content-type header, the name in any case, lower-cased
DeclaredType(e) ==
  IF Matching(e, TextContentType) = {} THEN EmptyText
  ELSE Lower(e.headers[First(Matching(e, TextContentType))][2])

\* the content-type declares JSON
DeclaresJson(e) ==
  Contains(DeclaredType(e), ApplicationJson) \/ Contains(DeclaredType(e), TextJson)

\* C15: get_json() returns None for every body that is neither a dict nor
\* JSON-parsable text under a JSON content-type: for a list, a number, an absent
\* body and a non-JSON string, also under application/json.
C15_NoneOtherwise ==
  call.op = "get_json" =>
    /\ made.body.kind \in {"list", "int", "none", "bytes"} => ret = PyNone
    /\ made.body.kind = "str" /\ ~JsonLoads(made.body.val).ok => ret = PyNone
    /\ made.body.kind = "str" /\ ~DeclaresJson(made) => ret = PyNone
    /\ made.body = TextBody(TextStringBody) => ret = PyNone

\* get_json() answered None for the text "string body" under application/json
C15_Witness ==
  /\ call.op = "get_json"
  /\ made.body = TextBody(TextStringBody)
  /\ made.headers = <<<<ContentTypeKey, ApplicationJson>>>>
  /\ ret = PyNone

\* C16: for a text body get_json() returns the parsed value exactly when
\* is_json() is true and the text is well-formed JSON, returns None without
\* raising when the text is malformed, and returns None for every text body
\* when the content-type does not declare JSON.
C16_TextParsedIffJson ==
  call.op = "get_json" /\ made.body.kind = "str" =>
    /\ ret.kind # "raise"
    /\ DeclaresJson(made) /\ JsonLoads(made.body.val).ok
         => ret = JsonLoads(made.body.val).val
    /\ ~JsonLoads(made.body.val).ok => ret = PyNone
    /\ ~DeclaresJson(made) => ret = PyNone
    /\ DeclaresJson(made) =>
         /\ made.body.val = TextJsonObject => ret = PyDict(<<<<KeyA, PyInt(1)>>>>)
         /\ made.body.val = TextJsonArray => ret = PyList(<<PyInt(1), TextBody(TextB)>>)
         /\ made.body.val = TextJsonUnclosed => ret = PyNone
         /\ made.body.val = EmptyText => ret = PyNone

\* get_json() parsed the text {"a": 1} under Content-Type: application/json
C16_Witness ==
  /\ call.op = "get_json"
  /\ made.body = TextBody(TextJsonObject)
  /\ made.headers = <<<<TextContentTypeTitle, ApplicationJson>>>>
  /\ ret = PyDict(<<<<KeyA, PyInt(1)>>>>)

-----------------------------------------------------------------------------
(* C17 *)

TextUtf8 == Str("utf-8")

\* C17: get_json() is idempotent and leaves the Event unchanged: two
\* consecutive calls return equal results, the fields are as constructed, and
\* get_text() still returns the original text, also when the JSON is malformed.
C17_GetJsonIdempotent ==
  call.op = "get_json" =>
    /\ prev.call.op = "get_json" => ret = prev.ret
    /\ event = made
    /\ made.body.kind = "str" => GetText(event, TextUtf8) = made.body

\* get_json() was called twice in a row on malformed JSON text
C17_Witness ==
  /\ call.op = "get_json" /\ prev.call.op = "get_json"
  /\ made.body = TextBody(TextJsonUnclosed)
  /\ made.headers = <<<<ContentTypeKey, ApplicationJson>>>>
  /\ ret = PyNone /\ prev.ret = PyNone
  /\ GetText(event, TextUtf8) = TextBody(TextJsonUnclosed)

-----------------------------------------------------------------------------
(* C18 *)

\* C18: no accessor ever raises, for every body shape, header mapping and
\* argument (get_text with any encoding argument included).
C18_NoAccessorRaises == ret.kind # "raise"

-----------------------------------------------------------------------------
(* C19 *)

\* what the bytes of the constructed bodies decode to: <<>> under every
\* encoding, abc under every codec, e-acute (195, 169) as one character under
\* UTF-8 and as two under Latin-1, 169 under Latin-1 only
Decoding(b, encoding) ==
  LET n == NormalizeEncoding(encoding)
  IN IF b = <<>> THEN TextBody(<<>>)
     ELSE IF n \in CodecLatin1 THEN TextBody(b)
     ELSE IF b = TextAbc /\ n \in CodecUtf8 \cup CodecAscii THEN TextBody(b)
     ELSE IF b = <<195, 169>> /\ n \in CodecUtf8 THEN TextBody(<<233>>)
     ELSE PyNone

\* C19: get_text(encoding) returns a text body unchanged whatever the encoding,
\* the decoding under the given encoding of a bytes body that decodes, None for
\* bytes that do not decode, and None for a mapping, a sequence, a number and an
\* absent body.
C19_GetText ==
  call.op = "get_text" =>
    /\ made.body.kind = "str" => ret = made.body
    /\ made.body.kind = "bytes" => ret = Decoding(made.body.val, call.params[1])
    /\ made.body.kind \in {"dict", "list", "int", "none"} => ret = PyNone

\* the encoding names a codec
KnownEncoding(encoding) ==
  NormalizeEncoding(encoding) \in CodecUtf8 \cup CodecAscii \cup CodecLatin1

\* C19 holds of every call whose encoding names a codec
C19_GetTextKnownEncoding ==
  call.op = "get_text" /\ KnownEncoding(call.params[1]) => C19_GetText

-----------------------------------------------------------------------------
(* C20 *)

\* the 6-bit group of a character of the alphabet
SextetOf(c) == CHOOSE k \in 0..63 : Base64Alphabet[k + 1] = c

\* base64 decoding of a padded text; <<-1>> for a text that is not padded
RECURSIVE B64Decode(_)
B64Decode(t) ==
  IF Len(t) = 0 THEN <<>>
  ELSE IF Len(t) < 4 THEN <<-1>>
  ELSE LET a == SextetOf(t[1])
           b == SextetOf(t[2])
       IN IF t[3] = 61 THEN <<a * 4 + b \div 16>>
          ELSE IF t[4] = 61
            THEN <<a * 4 + b \div 16, (b % 16) * 16 + SextetOf(t[3]) \div 4>>
          ELSE <<a * 4 + b \div 16, (b % 16) * 16 + SextetOf(t[3]) \div 4,
                 (SextetOf(t[3]) % 4) * 64 + SextetOf(t[4])>>
               \o B64Decode(SubSeq(t, 5, Len(t)))

\* C20: is_binary() is true exactly for a bytes body; get_binary() and
\* get_base64() return a value exactly then: get_binary() the body unchanged,
\* get_base64() a text whose base64 decoding is the body; for a text, mapping,
\* sequence or absent body both return None whatever the content-type.
C20_BinaryAccessors ==
  /\ call.op = "is_binary" => ret = PyBool(made.body.kind = "bytes")
  /\ call.op = "get_binary" =>
       ret = IF made.body.kind = "bytes" THEN made.body ELSE PyNone
  /\ call.op = "get_base64" =>
       IF made.body.kind = "bytes"
         THEN ret.kind = "str" /\ B64Decode(ret.val) = made.body.val
         ELSE ret = PyNone
  /\ call.op = "get_base64" /\ made.body = BytesBody(TextAbc) =>
       ret = TextBody(Base64OfAbc)
  /\ call.op = "get_base64" /\ made.body = BytesBody(<<169>>) =>
       ret = TextBody(Base64Of169)

\* get_base64() encoded the two bytes 195, 169 right after is_binary() said True
C20_Witness ==
  /\ call.op = "get_base64" /\ prev.call.op = "is_binary" /\ prev.ret = PyBool(TRUE)
  /\ made.body = BytesBody(<<195, 169>>)
  /\ ret = TextBody(Base64Of195169)

-----------------------------------------------------------------------------
(* C21, C22 *)

\* the root element of the XML body the Event was constructed with
Root == XmlFromString(made.body.val).el

\* an element and all elements below it
RECURSIVE Descendants(_)
Descendants(el) ==
  {el} \cup UNION {Descendants(el.children[k]) : k \in 1..Len(el.children)}

\* get_xml() answered with the structure of a well-formed document
XmlParsed ==
  /\ call.op = "get_xml" /\ made.body.kind = "str"
  /\ XmlFromString(made.body.val).ok
  /\ Contains(DeclaredType(made), ApplicationXml)

\* C21: in the result of get_xml() every element with at least one attribute,
\* root or nested, with or without children or text, is represented by a
\* mapping that has '@attributes' with exactly the element's attributes.
C21_AttributesKept ==
  XmlParsed =>
    /\ ret = XmlToDict(Root)
    /\ \A el \in Descendants(Root) :
         el.attrib # <<>> =>
           /\ XmlToDict(el).kind = "dict"
           /\ DictHas(XmlToDict(el).val, AttributesKey)
           /\ DictGet(XmlToDict(el).val, AttributesKey, PyNone) = AttribDict(el.attrib)

\* the structures, in document order, of the children of el that have the tag
StructuresOf(el, tag) ==
  LET ks == SelectSeq([k \in 1..Len(el.children) |-> k],
                      LAMBDA k : el.children[k].tag = tag)
  IN [n \in 1..Len(ks) |-> XmlToDict(el.children[ks[n]])]

\* C22: in the result of get_xml() an element with children maps each distinct
\* child tag to the one structure when exactly one child has the tag and to the
\* sequence of the structures in document order when several have it, for
\* every tag name and also when the parent has text of its own.
C22_ChildrenByTag ==
  XmlParsed =>
    /\ ret = XmlToDict(Root)
    /\ \A el \in Descendants(Root) : \A k \in 1..Len(el.children) :
         LET tag == el.children[k].tag
             structures == StructuresOf(el, tag)
         IN /\ XmlToDict(el).kind = "dict"
            /\ DictGet(XmlToDict(el).val, tag, PyNone) =
                 IF Len(structures) = 1 THEN structures[1] ELSE PyList(structures)

\* what C21 says holds of every element with attributes that has children or
\* has no text
C21_AttributesKeptUnlessTextLeaf ==
  XmlParsed =>
    \A el \in Descendants(Root) :
      el.attrib # <<>> /\ (Len(el.children) > 0 \/ Strip(el.text) = <<>>) =>
        /\ XmlToDict(el).kind = "dict"
        /\ DictGet(XmlToDict(el).val, AttributesKey, PyNone) = AttribDict(el.attrib)

\* what C22 says holds of every child tag but "text" under a parent with text
C22_ChildrenByTagUnlessText ==
  XmlParsed =>
    \A el \in Descendants(Root) : \A k \in 1..Len(el.children) :
      el.children[k].tag # TextKey \/ Strip(el.text) = <<>> =>
        DictGet(XmlToDict(el).val, el.children[k].tag, PyNone) =
          IF Len(StructuresOf(el, el.children[k].tag)) = 1
            THEN StructuresOf(el, el.children[k].tag)[1]
            ELSE PyList(StructuresOf(el, el.children[k].tag))

-----------------------------------------------------------------------------
(* C23 *)

\* the fields of a query string from i on as (name, value), a field without
\* "=" or with nothing after it having the value ""
RECURSIVE Fields(_, _)
Fields(qs, i) ==
  IF i > Len(qs) THEN <<>>
  ELSE LET a == IndexOf(qs, 38, i)
           j == IF a = 0 THEN Len(qs) + 1 ELSE a
           field == SubSeq(qs, i, j - 1)
           eq == IndexOf(field, 61, 1)
       IN (IF field = <<>> THEN <<>>
           ELSE IF eq = 0 THEN <<<<Unquote(field, 1), EmptyText>>>>
           ELSE <<<<Unquote(SubSeq(field, 1, eq - 1), 1),
                    Unquote(SubSeq(field, eq + 1, Len(field)), 1)>>>>)
          \o Fields(qs, j + 1)

\* the positions of the fields of the query string that are named name
Named(name) ==
  {i \in 1..Len(Fields(made.query_string, 1)) : Fields(made.query_string, 1)[i][1] = name}

\* those of them that have a value
NamedWithValue(name) == {i \in Named(name) : Fields(made.query_string, 1)[i][2] # EmptyText}

\* C23 as claimed: get_query_param(name, default) returns the first value of
\* name when name occurs in the query string, default when it does not occur
\* (so for every name when the query string is empty), and does not modify the
\* query string.
C23_FirstValueIfOccurs ==
  call.op = "get_query_param" =>
    LET name == call.params[1]
        default == call.params[2]
    IN /\ Named(name) # {} =>
            ret = TextBody(Fields(made.query_string, 1)[First(Named(name))][2])
       /\ Named(name) = {} => ret = default
       /\ event = made

\* what holds instead of C23: get_query_param(name, default) returns the first
\* non-empty value of name when name occurs in the query string with a
\* non-empty value, default otherwise (name absent, or present only without a
\* value, or the query string empty), and does not modify the query string.
C23_FirstNonEmptyValue ==
  call.op = "get_query_param" =>
    LET name == call.params[1]
        default == call.params[2]
    IN /\ NamedWithValue(name) # {} =>
            ret = TextBody(Fields(made.query_string, 1)[First(NamedWithValue(name))][2])
       /\ NamedWithValue(name) = {} => ret = default
       /\ made.query_string = EmptyText => ret = default
       /\ event = made

-----------------------------------------------------------------------------
(* C24 *)

\* the last message received
LastReceived == received[Len(received)]

\* C24, first half: the call ends without a fault of the channel only at a
\* message whose more_body is clear or absent, or at a first message that is
\* no body chunk: while body chunks with more_body set keep coming it does not
\* return.
C24_EndsOnlyAtEndOfBody ==
  Done /\ fault = NoFault =>
    /\ received # <<>>
    /\ \/ ~MsgGet(LastReceived, "more_body", FALSE)
       \/ Len(received) = 1 /\ ("type" \notin LastReceived.keys \/ FirstNotBodyChunk)

\* C24, second half: on a channel that eventually delivers a message with
\* more_body clear or absent, or raises a connectivity or timeout fault, the
\* call eventually returns an Event.
C24_EventuallyReturns == <>(pc = "returned")

\* on such a channel the call eventually ends, with an Event or an exception
C24_EventuallyEnds == <>Done

\* and it ends with an Event unless the lookups of the scope raise
C24_EventuallyReturnsOfDict == <>(pc = "returned" \/ scope.raises # {})

-----------------------------------------------------------------------------
(* C27 *)

\* the number of receives issued so far: one per message delivered and one
\* for the call that raised
ReceivesIssued == Len(received) + (IF fault = NoFault THEN 0 ELSE 1)

\* the k-th message led to a further receive by the code: it is the first one,
\* a body chunk with more_body set, or a later one with more_body set
AsksForMore(k) ==
  /\ MsgGet(received[k], "more_body", FALSE)
  /\ k = 1 => "type" \in received[1].keys /\ received[1].type = "http.request"

\* C27: one receive is issued at start and one further receive per message
\* that carried more_body set; none is issued after the first message whose
\* more_body is clear or absent, and exactly one in total when the first
\* message is not of kind 'http.request', even with more_body set.
C27_ReceivesFollowMoreBody ==
  /\ pc # "start" => ReceivesIssued >= 1
  /\ \A k \in 1..(ReceivesIssued - 1) : AsksForMore(k)
  /\ Done /\ fault = NoFault => ~AsksForMore(Len(received))
  /\ pc = "loop" => AsksForMore(Len(received))
  /\ Done /\ FirstNotBodyChunk => ReceivesIssued = 1

\* the call ended after one receive that delivered an 'http.disconnect' message
\* with more_body set
C27_Witness ==
  /\ Done /\ ReceivesIssued = 1 /\ Len(received) = 1
  /\ received[1].type = "http.disconnect"
  /\ MsgGet(received[1], "more_body", FALSE)

\* the call ended after three receives, the first two messages with more_body
\* set and the third without
C27_WitnessThree ==
  /\ Done /\ ReceivesIssued = 3 /\ Len(received) = 3
  /\ AsksForMore(1) /\ AsksForMore(2) /\ ~AsksForMore(3)

-----------------------------------------------------------------------------
(* C28 *)

\* the bytes received are a non-empty valid UTF-8 text and the call returned
\* a normal Event
ReturnedWithText ==
  NormalCase /\ pc = "returned" /\ body # <<>> /\ Utf8Decode(body).ok

\* one of the Event's own predicates says the body is of a text format
SaysTextFormat(e) == IsJson(e) \/ IsXml(e) \/ IsFormData(e) \/ IsMultipart(e)

\* C28: for every request with a non-empty valid UTF-8 body, if the returned
\* Event reports is_json(), is_xml(), is_form_data() or is_multipart() then its
\* body is text, whatever the letter case of the content-type header name and
\* whatever surrounds the media type in its value.
C28_TextWhenPredicateSaysSo ==
  ReturnedWithText /\ SaysTextFormat(result.event) =>
    result.event.body = TextBody(Utf8Decode(body).text)

\* the same when the request names the header in lower case and its value
\* begins with a media type of the allow-list
C28_TextWhenDeclaredTextLike ==
  ReturnedWithText /\ DeclaredTextLike(result.event) =>
    result.event.body = TextBody(Utf8Decode(body).text)

-----------------------------------------------------------------------------
(* C29 *)

\* the payloads of the 'http.request' messages of a sequence, in arrival order
RECURSIVE ConcatChunkPayloads(_)
ConcatChunkPayloads(ms) ==
  IF ms = <<>> THEN <<>>
  ELSE (IF /\ "type" \in Head(ms).keys
           /\ Head(ms).type = "http.request"
           /\ "body" \in Head(ms).keys
        THEN Head(ms).body ELSE <<>>) \o ConcatChunkPayloads(Tail(ms))

\* C29: only payloads of 'http.request' messages contribute to the body: a
\* message of another kind received at any position, first or later, adds
\* nothing to the accumulated body.
C29_OnlyChunksContribute == body = ConcatChunkPayloads(received)

\* the same for a message of another kind received first
C29_FirstOtherKindAddsNothing == FirstNotBodyChunk => body = <<>>

-----------------------------------------------------------------------------
(* C30 *)

\* the Event is the diagnostic of an encoding failure
IsEncodingErrorEvent(e) ==
  /\ Len(e.headers) = 1
  /\ e.headers[1][1] = TextXError
  /\ StartsWith(e.headers[1][2], TextEncodingError)
  /\ e.body = NoBody /\ e.query_string = <<>>

\* C30: if receive raises a connectivity or timeout fault on any call, first
\* or mid-stream, the result is the 'Connection error' Event with body unset
\* and no request header, also when the scope's headers or query string are
\* undecodable; an 'Encoding error' Event is produced only after the channel
\* was drained to its final chunk.
C30_FaultDiscardsEverything ==
  /\ fault # NoFault =>
       /\ pc = "returned"
       /\ result.event =
            Diagnostic(ScopeMethod, ScopePath, TextConnectionError \o fault.detail)
  /\ pc = "returned" /\ IsEncodingErrorEvent(result.event) =>
       /\ fault = NoFault
       /\ received # <<>>
       /\ ~MsgGet(received[Len(received)], "more_body", FALSE) \/ FirstNotBodyChunk

\* the same for the scopes whose lookups do not raise: a fault after chunks
\* were accumulated, on a scope with undecodable bytes, gives the
\* 'Connection error' Event
C30_FaultDiscardsEverythingOfDict ==
  /\ fault # NoFault /\ scope.raises = {} =>
       /\ pc = "returned"
       /\ result.event.body = NoBody
       /\ result.event.headers =
            <<<<TextXError, TextConnectionError \o fault.detail>>>>
  /\ pc = "returned" /\ IsEncodingErrorEvent(result.event) =>
       /\ fault = NoFault
       /\ received # <<>>
       /\ ~MsgGet(received[Len(received)], "more_body", FALSE) \/ FirstNotBodyChunk

-----------------------------------------------------------------------------
(* C26 *)

\* dict == dict: the same keys with the same values, in any order
RECURSIVE SameConfig(_, _)
SameConfig(a, b) ==
  IF a.kind = "dict" /\ b.kind = "dict"
    THEN /\ \A i \in 1..Len(a.val) : DictHas(b.val, a.val[i][1])
         /\ \A i \in 1..Len(b.val) :
              /\ DictHas(a.val, b.val[i][1])
              /\ SameConfig(DictGet(a.val, b.val[i][1], PyNone), b.val[i][2])
    ELSE a = b

\* the last call was set(key, value) and the one before it was not get:
\* the pair set, get is looked at after the get
LastSet == call.op = "config.set"
GetAfterSet ==
  /\ call.op = "config.get" /\ prev.call.op = "config.set"
  /\ call.params[1] = prev.call.params[1]

\* C26: for every dot-path key, every value and every prior configuration,
\* set(key, value) succeeds and a following get(key) returns value, and the
\* saved file then holds the same configuration as memory.
C26_SetThenGet ==
  /\ LastSet =>
       /\ ret.kind # "raise"
       /\ config_file \notin {FileAbsent, FileInvalid}
       /\ SameConfig(YamlSafeLoad(config_file), config_data)
  /\ GetAfterSet => ret = prev.call.params[2]

\* the same for the calls of set that did not raise
C26_SetThenGetWhenSetReturns ==
  /\ LastSet /\ ret.kind # "raise" =>
       /\ config_file \notin {FileAbsent, FileInvalid}
       /\ SameConfig(YamlSafeLoad(config_file), config_data)
  /\ GetAfterSet /\ prev.ret.kind # "raise" => ret = prev.call.params[2]

\* key a is a prefix or an extension of key b, as paths
RelatedKeys(a, b) ==
  LET p == SplitDots(a)
      q == SplitDots(b)
      n == IF Len(p) < Len(q) THEN Len(p) ELSE Len(q)
  IN SubSeq(p, 1, n) = SubSeq(q, 1, n)

\* a call of set, whether it returns or raises, leaves the value of every
\* key that is not a prefix or extension of its key as it was
C26_OtherKeysUnchanged ==
  [][call'.op = "config.set" =>
       \A k \in ConfigKeys :
         ~RelatedKeys(k, call'.params[1]) =>
           GetIn(config_data', SplitDots(k), PyNone)
             = ConfigGet(config_data, config_file, k, PyNone)]_vars

-----------------------------------------------------------------------------
(* C25 *)

\* the frame of an invocation that runs alone on scope sc and is delivered
\* the messages ms
RECURSIVE RunAlone(_, _)
RunAlone(sc, ms) ==
  IF ms = <<>> THEN Frame(sc)
  ELSE LET before == RunAlone(sc, SubSeq(ms, 1, Len(ms) - 1))
       IN OnMessage(before, before.body, ms[Len(ms)])

\* the same with the fault f, if any, raised by the receive after ms
RunAloneToFault(sc, ms, f) ==
  IF f = NoFault THEN RunAlone(sc, ms) ELSE OnFault(RunAlone(sc, ms), f)

\* C25: for any interleaving of the receive steps of two invocations on
\* distinct scopes and channels, each invocation has accumulated and returns
\* what it accumulates and returns when run alone on its scope and its
\* messages, and within one invocation at most one receive is outstanding.
C25_AsWhenRunAlone ==
  \A i \in Callers :
    LET fr == invocations[i]
        alone == RunAloneToFault(fr.scope, fr.received, fr.fault)
    IN /\ fr.waiting <= 1
       /\ fr.pc = alone.pc
       /\ fr.body = alone.body
       /\ fr.result = alone.result

\* both invocations returned an Event, each ran steps while the other was
\* inside its loop, each got two chunks, and their scopes differ
C25_Witness ==
  /\ \A i \in Callers :
       /\ invocations[i].pc = "returned"
       /\ invocations[i].overlapped
       /\ Len(invocations[i].received) = 2
       /\ invocations[i].body = <<97, 195, 169>>
  /\ invocations[1].scope # invocations[2].scope
  /\ invocations[1].result.event.body = TextBody(<<97, 233>>)
  /\ invocations[2].result.event.body = BytesBody(<<97, 195, 169>>)

\* on Spec the single invocation is in the state the frame run alone is in
C25_AloneIsTheInvocation ==
  pc \notin {"start", "idle"} =>
    LET alone == RunAloneToFault(scope, received, fault)
    IN pc = alone.pc /\ body = alone.body /\ result = alone.result

====
